---- MODULE Spec2Model ----
(***************************************************************************)
(* geometry-blast: the spatial-grid collision system (CollisionSystem,     *)
(* SpatialGrid), Vector2, and the grid warp system (GridWarpSystem).       *)
(*                                                                         *)
(* Numbers.  The program computes in IEEE doubles.  Here every length,     *)
(* coordinate, velocity, strength and force is a fixed-point integer in    *)
(* units of 1/Scale; factors the source writes as decimals (0.91, 0.5,     *)
(* 1.2 ...) are kept exactly as integer ratios.  Math.sqrt is the floor    *)
(* square root of the fixed-point value, divisions truncate toward zero.   *)
(* For whole-pixel inputs the comparison distance < rA + rB is decided     *)
(* exactly as the doubles decide it (sqrt is monotone and exact on         *)
(* perfect squares).                                                       *)
(***************************************************************************)
EXTENDS Integers, Sequences, FiniteSets, TLC

VARIABLES
    \* ---- collision system
    ents,         \* entity id -> [x, y, radius, active]        (Entity)
    spatialGrid,  \* [cols, rows, grid]: grid is cell -> list of entity ids
    calls,        \* callback invocations of the last detection pass, in order
    lastCall,     \* which operation ran last, with the callback and the groups it was given
    pairA,        \* the two entities handed to a direct checkCollision call
    pairB,
    result,       \* what that checkCollision call returned
    \* ---- grid warp system
    warp,         \* [canvasWidth, canvasHeight, cols, rows, springConstant, damping]
    gridPoints,   \* <<row, col>> -> [x, y, targetX, targetY, velocity, mass]
    influences,   \* the influence list, in list order
    explosionTimers, \* pending setTimeout callbacks of addExplosionWarp, oldest first
    ambientTimers,   \* number of pending setTimeout(addRandomPulse) callbacks
    nextId,       \* identity of the next influence object / addExplosionWarp call
    steps,        \* operations performed so far (bounds the runs)
    lastOp,       \* the operation that ran last
    applied,      \* <<row, col>> -> external force the last update() used there
    explosions,   \* per addExplosionWarp call: what it and its timer appended
    \* ---- healing presets side by side
    trials,       \* four systems, one per preset, given the same explosion and updates
    \* ---- Game: state, score, lives, player, enemies
    game

collisionVars == <<ents, spatialGrid, calls, lastCall, pairA, pairB, result>>
warpVars == <<warp, gridPoints, influences, explosionTimers, ambientTimers,
              nextId, steps, lastOp, applied, explosions>>
vars == <<collisionVars, warpVars, trials, game>>

Null == [null |-> TRUE]

\* ------------------------------------------------------------------ bounds
\* fixed-point resolution: one pixel is Scale units
Scale == 100
\* canvas handed to the CollisionSystem constructor, in pixels
CanvasW == 300
CanvasH == 200

\* ------------------------------------------------------------- arithmetic
Abs(a) == IF a < 0 THEN -a ELSE a
Min(a, b) == IF a < b THEN a ELSE b
Max(a, b) == IF a > b THEN a ELSE b
\* division of doubles, truncated toward zero on the fixed-point result
Div(a, b) == IF (a >= 0) = (b > 0) THEN Abs(a) \div Abs(b) ELSE -(Abs(a) \div Abs(b))
\* Math.floor(a / b) and Math.ceil(a / b) for b > 0
Floor(a, b) == a \div b
Ceil(a, b) == -((-a) \div b)
\* a * b / c truncated, for 0 < b and 0 < c, without forming a * b
MulDiv(a, b, c) == Div(a, c) * b + Div((a - Div(a, c) * c) * b, c)
Px(n) == n * Scale

RECURSIVE SqrtNewton(_, _)
\* Newton's iteration from a guess >= sqrt(n), n > 0: the floor of sqrt(n)
SqrtNewton(n, guess) ==
    LET better == (guess + n \div guess) \div 2
    IN  IF better >= guess THEN guess ELSE SqrtNewton(n, better)
\* Math.sqrt on a value whose unit is 1/Scale^2: the result is in 1/Scale
Sqrt(n) ==
    IF n = 0 THEN 0
    ELSE SqrtNewton(n, IF n < 10000 THEN 100
                       ELSE IF n < 1000000 THEN 1000
                       ELSE IF n < 100000000 THEN 10000 ELSE 46341)

\* ---------------------------------------------------------------- Vector2
Vec(x, y) == [x |-> x, y |-> y]
zero == Vec(0, 0)
add(a, b) == Vec(a.x + b.x, a.y + b.y)
subtract(a, b) == Vec(a.x - b.x, a.y - b.y)
\* scalar is fixed-point
multiply(v, scalar) == Vec(Div(v.x * scalar, Scale), Div(v.y * scalar, Scale))
divide(v, scalar) == Vec(Div(v.x * Scale, scalar), Div(v.y * Scale, scalar))
magnitude(v) == Sqrt(v.x * v.x + v.y * v.y)
normalize(v) ==
    LET mag == magnitude(v)
    IN  IF mag = 0 THEN zero ELSE divide(v, mag)
distance(a, b) == magnitude(subtract(a, b))

position(e) == Vec(e.x, e.y)

\* ------------------------------------------------------------ SpatialGrid
\* cellSize: the constructor's default
CellSize == 100

NewSpatialGrid(w, h) ==
    LET cols == Ceil(w, CellSize)
        rows == Ceil(h, CellSize)
    IN  [cols |-> cols, rows |-> rows,
         grid |-> [k \in (0 .. cols - 1) \X (0 .. rows - 1) |-> <<>>]]

\* a clear that leaves the map as it is
clearNothing(sg) == sg

\* grid.clear(): the map is empty; its cells are those of the current cols x rows
clear(sg) ==
    [sg EXCEPT !.grid = [k \in (0 .. sg.cols - 1) \X (0 .. sg.rows - 1) |-> <<>>]]

\* SpatialGrid.resize: cols and rows follow the new size, the map is left as
\* it is until the next pass rebuilds it
resizeGrid(sg, newWidth, newHeight) ==
    [sg EXCEPT !.cols = Ceil(newWidth, CellSize), !.rows = Ceil(newHeight, CellSize)]

calculateBounds(e) ==
    [minX |-> e.x - e.radius, maxX |-> e.x + e.radius,
     minY |-> e.y - e.radius, maxY |-> e.y + e.radius]

\* the cells the two nested for loops of insert and query visit, in loop order
CellRange(sg, bounds) ==
    LET startCol == Max(0, Floor(bounds.minX, Px(CellSize)))
        endCol   == Min(sg.cols - 1, Floor(bounds.maxX, Px(CellSize)))
        startRow == Max(0, Floor(bounds.minY, Px(CellSize)))
        endRow   == Min(sg.rows - 1, Floor(bounds.maxY, Px(CellSize)))
        w == endCol - startCol + 1
        h == endRow - startRow + 1
    IN  IF w <= 0 \/ h <= 0 THEN <<>>
        ELSE [i \in 1 .. w * h |->
                 <<startCol + ((i - 1) \div h), startRow + ((i - 1) % h)>>]

InRange(cells, k) == \E i \in 1 .. Len(cells) : cells[i] = k

\* an insert into the one cell that holds the entity's centre
insertAtCentre(sg, id, e) ==
    LET k == <<Floor(e.x, Px(CellSize)), Floor(e.y, Px(CellSize))>>
    IN  [sg EXCEPT !.grid =
            [c \in DOMAIN sg.grid |->
                IF c = k THEN Append(sg.grid[c], id) ELSE sg.grid[c]]]

\* cells outside the current cols x rows are never in CellRange; a cell the
\* map has no key for yet is created empty
insert(sg, id, e) ==
    LET cells == CellRange(sg, calculateBounds(e))
    IN  [sg EXCEPT !.grid =
            [k \in DOMAIN sg.grid |->
                IF InRange(cells, k) THEN Append(sg.grid[k], id) ELSE sg.grid[k]]]

RECURSIVE Dedupe(_, _)
Dedupe(s, seen) ==
    IF s = <<>> THEN <<>>
    ELSE IF Head(s) \in seen THEN Dedupe(Tail(s), seen)
         ELSE <<Head(s)>> \o Dedupe(Tail(s), seen \cup {Head(s)})

RECURSIVE Gather(_, _, _)
Gather(sg, cells, i) ==
    IF i > Len(cells) THEN <<>>
    ELSE (IF cells[i] \in DOMAIN sg.grid THEN sg.grid[cells[i]] ELSE <<>>)
         \o Gather(sg, cells, i + 1)

\* a query that returns the cells' lists one after the other
queryAllCells(sg, bounds) == Gather(sg, CellRange(sg, bounds), 1)

\* Array.from(Set): every CollisionData once, in order of first insertion
query(sg, bounds) == Dedupe(Gather(sg, CellRange(sg, bounds), 1), {})

\* -------------------------------------------------------- CollisionSystem
\* checkCircleCollision with the comparison made non-strict
checkCircleCollisionTouching(a, b, ea, eb) ==
    LET dist == distance(position(ea), position(eb))
        combinedRadius == ea.radius + eb.radius
    IN  IF dist <= combinedRadius
        THEN LET normal == normalize(subtract(position(eb), position(ea)))
             IN  [entityA |-> a, entityB |-> b,
                  penetration |-> combinedRadius - dist,
                  normal |-> normal,
                  contactPoint |-> add(position(ea), multiply(normal, ea.radius))]
        ELSE Null

checkCircleCollision(a, b, ea, eb) ==
    LET dist == distance(position(ea), position(eb))
        combinedRadius == ea.radius + eb.radius
    IN  IF dist < combinedRadius
        THEN LET normal == normalize(subtract(position(eb), position(ea)))
             IN  [entityA |-> a, entityB |-> b,
                  penetration |-> combinedRadius - dist,
                  normal |-> normal,
                  contactPoint |-> add(position(ea), multiply(normal, ea.radius))]
        ELSE Null

checkAABBCollision(ea, eb) ==
    LET boundsA == calculateBounds(ea)
        boundsB == calculateBounds(eb)
    IN  ~(\/ boundsA.maxX < boundsB.minX
          \/ boundsA.minX > boundsB.maxX
          \/ boundsA.maxY < boundsB.minY
          \/ boundsA.minY > boundsB.maxY)

checkCollision(a, b, ea, eb) ==
    IF ~checkAABBCollision(ea, eb) THEN Null
    ELSE checkCircleCollision(a, b, ea, eb)

\* The caller-supplied callback.  Game.handleCollisions passes handlers that
\* call destroy() on entityA (a projectile, a power-up), on entityB (an enemy
\* that dies) or on both; "none" changes no entity.
Callbacks == {"none", "destroyA", "destroyB", "destroyBoth"}

destroy(es, id) == [es EXCEPT ![id].active = FALSE]

\* st = [ents, calls]: the invocation is logged with the active flags the two
\* entities have at the moment of the call, then the handler runs
callback(st, res, cb) ==
    LET a == res.entityA
        b == res.entityB
        logged == Append(st.calls,
                         [entityA |-> a, entityB |-> b,
                          activeA |-> st.ents[a].active,
                          activeB |-> st.ents[b].active,
                          result |-> res])
        es == CASE cb = "none"        -> st.ents
                [] cb = "destroyA"    -> destroy(st.ents, a)
                [] cb = "destroyB"    -> destroy(st.ents, b)
                [] cb = "destroyBoth" -> destroy(destroy(st.ents, a), b)
    IN  [ents |-> es, calls |-> logged]

\* a groupB loop that runs from the last entity to the first
RECURSIVE InsertGroupBackwards(_, _, _, _)
InsertGroupBackwards(sg, es, group, i) ==
    IF i > Len(group) THEN sg
    ELSE LET id == group[Len(group) + 1 - i]
         IN  InsertGroupBackwards(IF es[id].active THEN insert(sg, id, es[id]) ELSE sg,
                                  es, group, i + 1)

RECURSIVE InsertGroup(_, _, _, _)
InsertGroup(sg, es, group, i) ==
    IF i > Len(group) THEN sg
    ELSE InsertGroup(IF es[group[i]].active THEN insert(sg, group[i], es[group[i]]) ELSE sg,
                     es, group, i + 1)

\* potentialCollisions.forEach(...) for one entityA
RECURSIVE Candidates(_, _, _, _, _)
Candidates(cands, j, a, st, cb) ==
    IF j > Len(cands) THEN st
    ELSE LET b == cands[j]
         IN  IF ~st.ents[b].active THEN Candidates(cands, j + 1, a, st, cb)
             ELSE LET res == checkCollision(a, b, st.ents[a], st.ents[b])
                  IN  Candidates(cands, j + 1, a,
                                 IF res # Null THEN callback(st, res, cb) ELSE st, cb)

\* groupA.forEach(...)
RECURSIVE GroupALoop(_, _, _, _, _)
GroupALoop(sg, groupA, i, st, cb) ==
    IF i > Len(groupA) THEN st
    ELSE LET a == groupA[i]
         IN  IF ~st.ents[a].active THEN GroupALoop(sg, groupA, i + 1, st, cb)
             ELSE GroupALoop(sg, groupA, i + 1,
                             Candidates(query(sg, calculateBounds(st.ents[a])), 1, a, st, cb),
                             cb)

\* returns [grid, ents, calls]
detectCollisions(sg, es, groupA, groupB, cb) ==
    LET built == InsertGroup(clear(sg), es, groupB, 1)
        st == GroupALoop(built, groupA, 1, [ents |-> es, calls |-> <<>>], cb)
    IN  [grid |-> built, ents |-> st.ents, calls |-> st.calls]

RECURSIVE TargetLoopRechecking(_, _, _, _, _)
\* a loop that tests the target's active flag again for every entity
TargetLoopRechecking(entities, i, target, st, cb) ==
    IF i > Len(entities) THEN st
    ELSE LET e == entities[i]
         IN  IF ~st.ents[e].active \/ ~st.ents[target].active
             THEN TargetLoopRechecking(entities, i + 1, target, st, cb)
             ELSE LET res == checkCollision(e, target, st.ents[e], st.ents[target])
                  IN  TargetLoopRechecking(entities, i + 1, target,
                                           IF res # Null THEN callback(st, res, cb) ELSE st,
                                           cb)

RECURSIVE TargetLoop(_, _, _, _, _)
TargetLoop(entities, i, target, st, cb) ==
    IF i > Len(entities) THEN st
    ELSE LET e == entities[i]
         IN  IF ~st.ents[e].active THEN TargetLoop(entities, i + 1, target, st, cb)
             ELSE LET res == checkCollision(e, target, st.ents[e], st.ents[target])
                  IN  TargetLoop(entities, i + 1, target,
                                 IF res # Null THEN callback(st, res, cb) ELSE st, cb)

\* a pass against a target that itself deactivates the target once hit
detectCollisionsWithTargetConsuming(es, entities, target, cb) ==
    IF ~es[target].active THEN [ents |-> es, calls |-> <<>>]
    ELSE LET st == TargetLoop(entities, 1, target, [ents |-> es, calls |-> <<>>], cb)
         IN  [ents |-> IF st.calls # <<>> THEN destroy(st.ents, target) ELSE st.ents,
              calls |-> st.calls]

detectCollisionsWithTarget(es, entities, target, cb) ==
    IF ~es[target].active THEN [ents |-> es, calls |-> <<>>]
    ELSE TargetLoop(entities, 1, target, [ents |-> es, calls |-> <<>>], cb)

\* ---------------------------------------------------------- GridWarpSystem
\* constructor default of gridSize, and the maxDisplacement field
GridSize == 30
MaxDisplacement == 25
\* durations are counted in ticks of 1/TimeScale second (1/30 s = 100 ticks)
TimeScale == 3000

\* The fields the constructor sets.  springConstant and damping are kept in
\* hundredths (1.0 -> 100, 0.5 -> 50).
NewWarp(w, h) ==
    [canvasWidth |-> w, canvasHeight |-> h,
     cols |-> Ceil(w, GridSize) + 1, rows |-> Ceil(h, GridSize) + 1,
     springConstant |-> 100, damping |-> 50]

\* The three Math.random() draws initializeGrid makes for a point, in
\* hundredths.  "flat": every draw 0.5 (mass 1.0, no jitter); "rough": the
\* draws alternate between the ends of [0, 1) from point to point.
Patterns == {"flat", "rough"}
Draws(pattern, row, col) ==
    IF pattern = "flat" THEN [mass |-> 50, jx |-> 50, jy |-> 50]
    ELSE IF (row + col) % 2 = 0 THEN [mass |-> 0, jx |-> 0, jy |-> 99]
    ELSE [mass |-> 99, jx |-> 99, jy |-> 0]

\* mass is kept in hundredths; jitter = (random * 2 - 1) * 0.2
initializeGrid(cols, rows, pattern) ==
    [p \in (0 .. rows - 1) \X (0 .. cols - 1) |->
        LET row == p[1]
            col == p[2]
            x == Px(col * GridSize)
            y == Px(row * GridSize)
            u == Draws(pattern, row, col)
            massFactor == 90 + Div(u.mass * 20, 100)
            jitterX == Div((u.jx * 2 - 100) * Scale, 500)
            jitterY == Div((u.jy * 2 - 100) * Scale, 500)
        IN  [x |-> x + jitterX, y |-> y + jitterY, targetX |-> x, targetY |-> y,
             velocity |-> zero, mass |-> massFactor]]

\* a resize that leaves out the closing row and column of the lattice
resizeWithoutBorder(w, newWidth, newHeight) ==
    [w EXCEPT !.canvasWidth = newWidth, !.canvasHeight = newHeight,
              !.cols = Ceil(newWidth, GridSize),
              !.rows = Ceil(newHeight, GridSize)]

resize(w, newWidth, newHeight) ==
    [w EXCEPT !.canvasWidth = newWidth, !.canvasHeight = newHeight,
              !.cols = Ceil(newWidth, GridSize) + 1,
              !.rows = Ceil(newHeight, GridSize) + 1]

\* One WarpInfluence.  id is the object's identity, call the addExplosionWarp
\* call it stems from (0: none); decay is in hundredths.
Influence(id, pos, strength, radius, type, decay, call) ==
    [id |-> id, position |-> pos, strength |-> strength, radius |-> radius,
     type |-> type, decay |-> decay, call |-> call]

\* entity: [position, radius, velocity, lastPosition]; lastPosition is Null
\* for an object without that property
addEntityInfluence(list, id, entity, strength) ==
    LET speed == magnitude(entity.velocity)
        speedFactor == Min(Px(2), Max(Px(1), Div(speed, 3)))
        radius == Max(Px(8), Div(entity.radius * 12, 10) + speedFactor * 3)
        influenceStrength == Div(strength * 150 * speedFactor, Scale)
        main == Append(list, Influence(id, entity.position, influenceStrength,
                                       radius, "push", 97, 0))
    IN  IF speed > Px(3) /\ entity.lastPosition # Null
        THEN Append(main, Influence(id + 1, entity.lastPosition,
                                    Div(influenceStrength * 6, 10),
                                    Div(radius * 6, 10), "push", 94, 0))
        ELSE main

\* the synchronous part of addExplosionWarp: the main push
addExplosionWarp(list, id, pos, strength) ==
    Append(list, Influence(id, pos, strength * 120, Px(35), "push", 91, id))

\* the timer callback without its test of the strength
explosionTimerCallbackAlways(list, id, t) ==
    Append(list, Influence(id, t.position, t.strength * 60, Px(20), "pull", 93, t.call))

\* the setTimeout callback of addExplosionWarp; t = [position, strength, call]
explosionTimerCallback(list, id, t) ==
    IF t.strength > Px(1)
    THEN Append(list, Influence(id, t.position, t.strength * 60, Px(20), "pull", 93, t.call))
    ELSE list

\* a gravity well that takes the place of the list's last influence
addGravityWellReplacing(list, id, pos, strength) ==
    Append(SubSeq(list, 1, Len(list) - 1),
           Influence(id, pos, strength * 80, Px(25), "pull", 93, 0))

addGravityWell(list, id, pos, strength) ==
    Append(list, Influence(id, pos, strength * 80, Px(25), "pull", 93, 0))

\* rnd: the Math.random() draws of one addAmbientPulse call, in hundredths
\* [x, y, radius, type, decay]; centerX, centerY < 0 ask for a random place
addAmbientPulse(list, id, w, centerX, centerY, strength, rnd) ==
    LET x == IF centerX >= 0 THEN centerX ELSE Div(rnd.x * Px(w.canvasWidth), 100)
        y == IF centerY >= 0 THEN centerY ELSE Div(rnd.y * Px(w.canvasHeight), 100)
    IN  Append(list, Influence(id, Vec(x, y), strength * 30,
                               Px(80) + Div(rnd.radius * Px(40), 100),
                               IF rnd.type > 30 THEN "push" ELSE "pull",
                               95 + Div(rnd.decay * 3, 100), 0))

\* setHealingSpeed: (springConstant, damping) of a preset, in hundredths
Presets == {"slow", "medium", "fast", "instant"}
setHealingSpeed(w, speed) ==
    CASE speed = "slow"    -> [w EXCEPT !.springConstant = 8,  !.damping = 95]
      [] speed = "medium"  -> [w EXCEPT !.springConstant = 15, !.damping = 92]
      [] speed = "fast"    -> [w EXCEPT !.springConstant = 25, !.damping = 85]
      [] speed = "instant" -> [w EXCEPT !.springConstant = 40, !.damping = 75]

\* a preset lookup with a tolerance of 0.11 in every comparison
getHealingSpeedPresetLoose(w) ==
    IF Abs(w.springConstant - 8) < 11 /\ Abs(w.damping - 95) < 11 THEN "slow"
    ELSE IF Abs(w.springConstant - 15) < 11 /\ Abs(w.damping - 92) < 11 THEN "medium"
    ELSE IF Abs(w.springConstant - 25) < 11 /\ Abs(w.damping - 85) < 11 THEN "fast"
    ELSE IF Abs(w.springConstant - 40) < 11 /\ Abs(w.damping - 75) < 11 THEN "instant"
    ELSE "custom"

\* getHealingSpeedPreset: tolerances 0.01 (slow, medium, fast) and 0.05
\* (instant), in hundredths
getHealingSpeedPreset(w) ==
    IF Abs(w.springConstant - 8) < 1 /\ Abs(w.damping - 95) < 1 THEN "slow"
    ELSE IF Abs(w.springConstant - 15) < 1 /\ Abs(w.damping - 92) < 1 THEN "medium"
    ELSE IF Abs(w.springConstant - 25) < 1 /\ Abs(w.damping - 85) < 1 THEN "fast"
    ELSE IF Abs(w.springConstant - 40) < 5 /\ Abs(w.damping - 75) < 5 THEN "instant"
    ELSE "custom"

\* ---- update(), phase 1: decay and prune
\* a decay that stops once the strength is down to 20
decayedWhileStrong(i) ==
    [i EXCEPT !.strength =
        IF i.strength > Px(20) THEN Div(Div(i.strength * i.decay, 100) * 99, 100)
        ELSE i.strength]

decayed(i) ==
    [i EXCEPT !.strength =
        IF i.strength > Px(20) THEN Div(Div(i.strength * i.decay, 100) * 99, 100)
        ELSE Div(i.strength * i.decay, 100)]

RECURSIVE ForwardSplice(_)
\* a forward loop over the list: the element after a removed one is skipped
ForwardSplice(list) ==
    IF list = <<>> THEN <<>>
    ELSE LET d == decayed(Head(list))
         IN  IF d.strength < Px(1)
             THEN (IF Len(list) >= 2
                   THEN <<list[2]>> \o ForwardSplice(SubSeq(list, 3, Len(list)))
                   ELSE <<>>)
             ELSE <<d>> \o ForwardSplice(Tail(list))

decayAndPruneForward(list) == ForwardSplice(list)

\* a prune test on the magnitude of the strength
RemainsByMagnitude(i) == ~(Abs(i.strength) < Px(1))

Remains(i) == ~(i.strength < Px(1))

\* the backward loop with splice: every influence decays once, the weak ones
\* leave, the others keep their order
decayAndPrune(list) ==
    SelectSeq([k \in 1 .. Len(list) |-> decayed(list[k])], Remains)

\* ---- update(), phase 2: the influence map
WarpCellSize == GridSize * 2
cellCols(w) == Ceil(w.canvasWidth, WarpCellSize) + 1
cellRows(w) == Ceil(w.canvasHeight, WarpCellSize) + 1

\* what one influence adds to cell (r, c) of the map: [forces, count]
cellContribution(inf, r, c) ==
    LET cellX == Floor(inf.position.x, Px(WarpCellSize))
        cellY == Floor(inf.position.y, Px(WarpCellSize))
        radius == Ceil(inf.radius, Px(WarpCellSize))
        cellCenter == Vec(Div((2 * c + 1) * Px(WarpCellSize), 2),
                          Div((2 * r + 1) * Px(WarpCellSize), 2))
        dist == distance(cellCenter, inf.position)
        normalizedDistance == Max(Div(Scale, 10), Div(dist * Scale, inf.radius))
        falloff == Div(Scale * Scale,
                       Div(normalizedDistance * normalizedDistance, Scale) + Div(Scale, 5))
        forceMagnitude == Div(inf.strength * falloff, Scale)
        direction == normalize(subtract(cellCenter, inf.position))
        force == multiply(direction, forceMagnitude)
    IN  IF /\ Abs(r - cellY) <= radius
           /\ Abs(c - cellX) <= radius
           /\ dist < inf.radius + Px(WarpCellSize)
        THEN [forces |-> IF inf.type = "push" THEN force ELSE Vec(-force.x, -force.y),
              count |-> 1]
        ELSE [forces |-> zero, count |-> 0]

RECURSIVE CellSum(_, _, _, _)
CellSum(list, k, r, c) ==
    IF k > Len(list) THEN [forces |-> zero, count |-> 0]
    ELSE LET one == cellContribution(list[k], r, c)
             rest == CellSum(list, k + 1, r, c)
         IN  [forces |-> add(one.forces, rest.forces), count |-> one.count + rest.count]

influenceMap(list, w) ==
    [rc \in (0 .. cellRows(w) - 1) \X (0 .. cellCols(w) - 1) |-> CellSum(list, 1, rc[1], rc[2])]

\* the external force update() reads for lattice point (row, col)
cellForce(imap, row, col) ==
    LET cell == <<Floor(row * GridSize, WarpCellSize), Floor(col * GridSize, WarpCellSize)>>
        cellInfluence == imap[cell]
    IN  IF cell \in DOMAIN imap /\ cellInfluence.count > 0 THEN cellInfluence.forces ELSE zero

\* ---- update(), phase 3: spring, damping, integration, clamp
\* Math.sin(n) * 0.01 in units of 1/10000, n = col + row
SinTable == <<0, 84, 91, 14, -76, -96, -28, 66, 99, 41, -54>>
sinTerm(n) == SinTable[(n % 11) + 1]

\* the displacement limit with the sign of the excess term slipped: 1 + min(1, excess / 10)
clampDisplacementSignSlip(x, y, v, originalX, originalY) ==
    LET currentDisplacement == Sqrt((x - originalX) * (x - originalX)
                                    + (y - originalY) * (y - originalY))
        excess == currentDisplacement - Px(MaxDisplacement)
        dampingFactor == Scale + Min(Scale, Div(excess, 10))
        ratio == Div(Px(MaxDisplacement) * Scale, currentDisplacement)
    IN  IF currentDisplacement > Px(MaxDisplacement)
        THEN [x |-> originalX + Div(Div((x - originalX) * ratio, Scale) * dampingFactor, Scale),
              y |-> originalY + Div(Div((y - originalY) * ratio, Scale) * dampingFactor, Scale),
              velocity |-> Vec(Div(v.x * (-5), 10), Div(v.y * (-5), 10)),
              clamped |-> TRUE]
        ELSE [x |-> x, y |-> y, velocity |-> v, clamped |-> FALSE]

clampDisplacement(x, y, v, originalX, originalY) ==
    LET currentDisplacement == Sqrt((x - originalX) * (x - originalX)
                                    + (y - originalY) * (y - originalY))
        excess == currentDisplacement - Px(MaxDisplacement)
        \* 1 - Math.min(1, excess / 10)
        dampingFactor == Scale - Min(Scale, Div(excess, 10))
        ratio == Div(Px(MaxDisplacement) * Scale, currentDisplacement)
    IN  IF currentDisplacement > Px(MaxDisplacement)
        THEN [x |-> originalX + Div(Div((x - originalX) * ratio, Scale) * dampingFactor, Scale),
              y |-> originalY + Div(Div((y - originalY) * ratio, Scale) * dampingFactor, Scale),
              velocity |-> Vec(Div(v.x * (-5), 10), Div(v.y * (-5), 10)),
              clamped |-> TRUE]
        ELSE [x |-> x, y |-> y, velocity |-> v, clamped |-> FALSE]

\* one iteration of the loop over the lattice; returns the point and whether
\* the clamp engaged
updatePoint(point, row, col, force, w, fixedDeltaTime) ==
    LET originalX == Px(col * GridSize)
        originalY == Px(row * GridSize)
        dx == originalX - point.x
        dy == originalY - point.y
        displacement == Sqrt(dx * dx + dy * dy)
        instant == w.springConstant >= 35
        springMultiplier == IF instant THEN 6 ELSE IF w.springConstant >= 20 THEN 5 ELSE 1
        snapThreshold == Div(8 * Scale, 10)
        snap == instant /\ displacement < snapThreshold
        px0 == IF snap THEN originalX ELSE point.x
        py0 == IF snap THEN originalY ELSE point.y
        v0 == IF snap THEN Vec(Div(point.velocity.x * 3, 10), Div(point.velocity.y * 3, 10))
              ELSE point.velocity
        springFactor == Div(w.springConstant * springMultiplier
                              * (Scale + Div(displacement * 5, 100)), 100)
        springForceX == Div(dx * springFactor, Scale)
        springForceY == Div(dy * springFactor, Scale)
        \* (force + springForce) * fixedDeltaTime * (1 / mass)
        v1 == Vec(v0.x + Div(MulDiv(force.x + springForceX, fixedDeltaTime, TimeScale) * 100,
                             point.mass),
                  v0.y + Div(MulDiv(force.y + springForceY, fixedDeltaTime, TimeScale) * 100,
                             point.mass))
        pointDamping == w.damping * 100 + sinTerm(col + row)
        factor == IF instant THEN Div(pointDamping * 12, 10) ELSE pointDamping
        v2 == Vec(MulDiv(v1.x, factor, 10000), MulDiv(v1.y, factor, 10000))
        x2 == px0 + MulDiv(v2.x, fixedDeltaTime, TimeScale)
        y2 == py0 + MulDiv(v2.y, fixedDeltaTime, TimeScale)
        lim == clampDisplacement(x2, y2, v2, originalX, originalY)
    IN  [point |-> [point EXCEPT !.x = lim.x, !.y = lim.y, !.velocity = lim.velocity],
         clamped |-> lim.clamped]

\* update() with the influence map built before the decay
updateAggregateFirst(w, points, list, deltaTime) ==
    LET fixedDeltaTime == Min(deltaTime, Div(TimeScale, 30))
        imap == influenceMap(list, w)
        pruned == decayAndPrune(list)
        forces == [p \in DOMAIN points |-> cellForce(imap, p[1], p[2])]
        moved == [p \in DOMAIN points |->
                     updatePoint(points[p], p[1], p[2], forces[p], w, fixedDeltaTime)]
    IN  [influences |-> pruned,
         forces |-> forces,
         points |-> [p \in DOMAIN points |-> moved[p].point],
         clamped |-> \E p \in DOMAIN points : moved[p].clamped]

\* update(deltaTime): decay and prune, influence map, then every point
update(w, points, list, deltaTime) ==
    LET fixedDeltaTime == Min(deltaTime, Div(TimeScale, 30))
        pruned == decayAndPrune(list)
        imap == influenceMap(pruned, w)
        forces == [p \in DOMAIN points |-> cellForce(imap, p[1], p[2])]
        moved == [p \in DOMAIN points |->
                     updatePoint(points[p], p[1], p[2], forces[p], w, fixedDeltaTime)]
    IN  [influences |-> pruned,
         forces |-> forces,
         points |-> [p \in DOMAIN points |-> moved[p].point],
         clamped |-> \E p \in DOMAIN points : moved[p].clamped]

\* what the last operation was, and what it did
Op(name) ==
    [op |-> name, clamped |-> FALSE, pruned |-> 0, moved |-> FALSE,
     entered |-> <<>>, registered |-> <<>>]

\* new GridWarpSystem(60, 30)
LatticeInit ==
    /\ warp = NewWarp(60, 30)
    /\ gridPoints = initializeGrid(NewWarp(60, 30).cols, NewWarp(60, 30).rows, "rough")
    /\ influences = <<>>
    /\ explosionTimers = <<>>
    /\ ambientTimers = 0
    /\ nextId = 1
    /\ steps = 0
    /\ lastOp = Op("new")
    /\ applied = [p \in (0 .. NewWarp(60, 30).rows - 1) \X (0 .. NewWarp(60, 30).cols - 1) |-> zero]
    /\ explosions = {}
    /\ trials = Null

WarpInit == LatticeInit /\ game = Null

\* ------------------------------------------------- collision: state machine
\* the groups the game hands over: projectiles/player first, enemies second
GroupA == <<1, 2>>
GroupB == <<3, 4>>
Ids == {1, 2, 3, 4}

\* entity centres (pixels): inside the canvas on both sides of a cell border,
\* straddling the right canvas edge, and wholly right of it
Positions == {<<95, 50>>, <<105, 95>>, <<295, 50>>, <<310, 50>>}
SmallRadius == 10
BigRadius == 120

Entity(p, r, act) == [x |-> Px(p[1]), y |-> Px(p[2]), radius |-> Px(r), active |-> act]

EntsInit ==
    \E p1 \in Positions, p2 \in {<<105, 95>>, <<310, 50>>}, p3 \in Positions, p4 \in Positions,
       r3 \in {SmallRadius, BigRadius}, r4 \in {SmallRadius, BigRadius},
       act \in [Ids -> BOOLEAN] :
        ents = [i \in Ids |->
                  Entity(CASE i = 1 -> p1 [] i = 2 -> p2 [] i = 3 -> p3 [] i = 4 -> p4,
                         CASE i = 3 -> r3 [] i = 4 -> r4 [] OTHER -> SmallRadius,
                         act[i])]

NoPair == Entity(<<0, 0>>, 0, FALSE)

CollisionInit ==
    /\ EntsInit
    /\ spatialGrid = NewSpatialGrid(CanvasW, CanvasH)
    /\ calls = <<>>
    /\ lastCall = [op |-> "none", cb |-> "none", groupA |-> <<>>, groupB |-> <<>>]
    /\ pairA = NoPair
    /\ pairB = NoPair
    /\ result = Null
    /\ WarpInit

DetectCollisions ==
    \E cb \in Callbacks :
        LET out == detectCollisions(spatialGrid, ents, GroupA, GroupB, cb)
        IN  /\ lastCall.op = "none"
            /\ ents' = out.ents
            /\ spatialGrid' = out.grid
            /\ calls' = out.calls
            /\ lastCall' = [op |-> "detectCollisions", cb |-> cb, groupA |-> GroupA, groupB |-> GroupB]
            /\ UNCHANGED <<pairA, pairB, result, warpVars, trials, game>>

\* enemies against the player: entities = GroupB, target = entity 1
DetectCollisionsWithTarget ==
    \E cb \in Callbacks :
        LET out == detectCollisionsWithTarget(ents, GroupB, 1, cb)
        IN  /\ lastCall.op = "none"
            /\ ents' = out.ents
            /\ calls' = out.calls
            /\ lastCall' = [op |-> "detectCollisionsWithTarget", cb |-> cb, groupA |-> <<>>, groupB |-> <<>>]
            /\ UNCHANGED <<spatialGrid, pairA, pairB, result, warpVars, trials, game>>

CollisionNext == DetectCollisions \/ DetectCollisionsWithTarget

SpecCollision == CollisionInit /\ [][CollisionNext]_vars

\* ------------------------------------------------- pass after pass
\* detectCollisions called again and again with changing groups, and
\* CollisionSystem.resize in between
PassSteps == 2
PassGroups ==
    {[groupA |-> <<1, 2>>, groupB |-> <<3, 4>>],
     [groupA |-> <<1, 2>>, groupB |-> <<3>>],
     [groupA |-> <<2, 1>>, groupB |-> <<4>>]}
PassSizes == {<<CanvasW, CanvasH>>, <<CellSize, CellSize>>}

PassInit ==
    /\ \E p1 \in {<<95, 50>>, <<105, 95>>}, p3 \in {<<95, 50>>, <<295, 50>>, <<112, 50>>},
          p4 \in {<<105, 95>>, <<95, 50>>}, r3 \in {SmallRadius, BigRadius},
          r4 \in {SmallRadius, BigRadius} :
           ents = [i \in Ids |->
                     Entity(CASE i = 1 -> p1 [] i = 2 -> <<105, 95>> [] i = 3 -> p3 [] i = 4 -> p4,
                            CASE i = 3 -> r3 [] i = 4 -> r4 [] OTHER -> SmallRadius,
                            TRUE)]
    /\ spatialGrid = NewSpatialGrid(CanvasW, CanvasH)
    /\ calls = <<>>
    /\ lastCall = [op |-> "none", cb |-> "none", groupA |-> <<>>, groupB |-> <<>>]
    /\ pairA = NoPair
    /\ pairB = NoPair
    /\ result = Null
    /\ WarpInit

CollisionPass(n) ==
    \E g \in PassGroups, cb \in Callbacks :
        LET out == detectCollisions(spatialGrid, ents, g.groupA, g.groupB, cb)
        IN  /\ steps < n
            /\ steps' = steps + 1
            /\ ents' = out.ents
            /\ spatialGrid' = out.grid
            /\ calls' = out.calls
            /\ lastCall' = [op |-> "detectCollisions", cb |-> cb, groupA |-> g.groupA, groupB |-> g.groupB]
            /\ UNCHANGED <<pairA, pairB, result, warp, gridPoints, influences,
                           explosionTimers, ambientTimers, nextId, lastOp, applied,
                           explosions, trials, game>>

CollisionResize(n) ==
    \E size \in PassSizes :
        /\ steps < n
        /\ steps' = steps + 1
        /\ spatialGrid' = resizeGrid(spatialGrid, size[1], size[2])
        /\ lastCall' = [op |-> "resize", cb |-> "none", groupA |-> <<>>, groupB |-> <<>>]
        /\ UNCHANGED <<ents, calls, pairA, pairB, result, warp, gridPoints, influences,
                       explosionTimers, ambientTimers, nextId, lastOp, applied,
                       explosions, trials, game>>

PassNext(n) == CollisionPass(n) \/ CollisionResize(n)

SpecPasses == PassInit /\ [][PassNext(PassSteps)]_vars

\* ------------------------------------------- checkCollision on its own
PairXs == {-8, 0, 3, 8, 9, 10}
PairYs == {0, 4, 9}
PairRadii == {1, 4, 5}

PairInit ==
    /\ ents = [i \in Ids |-> NoPair]
    /\ spatialGrid = NewSpatialGrid(CanvasW, CanvasH)
    /\ calls = <<>>
    /\ lastCall = [op |-> "none", cb |-> "none", groupA |-> <<>>, groupB |-> <<>>]
    /\ \E y \in {0, 3}, r \in PairRadii : pairA = Entity(<<0, y>>, r, TRUE)
    /\ \E x \in PairXs, y \in PairYs, r \in PairRadii : pairB = Entity(<<x, y>>, r, TRUE)
    /\ result = Null
    /\ WarpInit

CheckCollision ==
    /\ lastCall.op = "none"
    /\ result' = checkCollision(1, 2, pairA, pairB)
    /\ lastCall' = [op |-> "checkCollision", cb |-> "none", groupA |-> <<>>, groupB |-> <<>>]
    /\ UNCHANGED <<ents, spatialGrid, calls, pairA, pairB, warpVars, trials, game>>

SpecPair == PairInit /\ [][CheckCollision]_vars

\* --------------------------------------------------- grid warp: state machine
\* operations a bounded run performs, and the operations an unbounded
\* (update-forever) run performs before it only calls update()
MaxSteps == 3
LiveSteps == 1

\* canvas sizes (pixels) for the constructor and for resize
WarpSizes == {<<60, 30>>, <<30, 30>>}
\* where influences are put, and the strengths callers pass
InfluencePositions == {Vec(Px(20), Px(10))}
ExplosionStrengths == {Div(Scale, 100), Px(1), Px(250)}
GravityStrengths == {Div(Scale, 100), Div(12 * Scale, 10)}
EntityStrengths == {Div(6 * Scale, 10)}
EntityVelocities == {Vec(Px(6), 0)}
\* deltaTime in ticks: 1/60 s, and 1/10 s (a slow frame, capped by update)
DeltaTimes == {Div(TimeScale, 60), Div(TimeScale, 10)}
\* the Math.random() draws of one ambient pulse, in hundredths
AmbientStrengths == {Div(Scale, 2)}
AmbientDraws ==
    {[x |-> 50, y |-> 50, radius |-> 0, type |-> 99, decay |-> 0, strength |-> 0],
     [x |-> 25, y |-> 75, radius |-> 99, type |-> 10, decay |-> 99, strength |-> 99]}

NoForces(points) == [p \in DOMAIN points |-> zero]
Moving(points) == \E p \in DOMAIN points : points[p].velocity # zero

\* the influences an operation appended, and how many of them carry the
\* given type and addExplosionWarp call
Appended(old, new) == SubSeq(new, Len(old) + 1, Len(new))
CountOf(app, type, call, pos) ==
    Cardinality({k \in 1 .. Len(app) :
                    app[k].type = type /\ app[k].call = call /\ app[k].position = pos})

Step(n, name) ==
    /\ steps < n
    /\ steps' = steps + 1
    /\ lastOp' = Op(name)

AddEntityInfluence(n, strengths) ==
    \E pos \in InfluencePositions, v \in EntityVelocities, s \in strengths :
        LET entity == [position |-> pos, radius |-> Px(SmallRadius), velocity |-> v,
                       lastPosition |-> Null]
            new == addEntityInfluence(influences, nextId, entity, s)
        IN  /\ Step(n, "addEntityInfluence")
            /\ influences' = new
            /\ nextId' = nextId + Len(Appended(influences, new))
            /\ UNCHANGED <<warp, gridPoints, explosionTimers, ambientTimers, applied,
                           explosions, collisionVars, trials, game>>

AddExplosionWarp(n, strengths) ==
    \E pos \in InfluencePositions, s \in strengths :
        LET new == addExplosionWarp(influences, nextId, pos, s)
            app == Appended(influences, new)
        IN  /\ Step(n, "addExplosionWarp")
            /\ influences' = new
            /\ explosionTimers' = Append(explosionTimers,
                                         [position |-> pos, strength |-> s, call |-> nextId])
            /\ explosions' = explosions \cup
                                {[call |-> nextId, strength |-> s,
                                  pushes |-> CountOf(app, "push", nextId, pos),
                                  pulls |-> CountOf(app, "pull", nextId, pos),
                                  fired |-> FALSE]}
            /\ nextId' = nextId + 1
            /\ UNCHANGED <<warp, gridPoints, ambientTimers, applied, collisionVars, trials, game>>

\* the 100 ms timer of the oldest pending addExplosionWarp call fires
FireExplosionTimer(n, live) ==
    /\ explosionTimers # <<>>
    /\ live \/ steps < n
    /\ LET t == Head(explosionTimers)
           new == explosionTimerCallback(influences, nextId, t)
           app == Appended(influences, new)
       IN  /\ steps' = IF steps < n THEN steps + 1 ELSE steps
           /\ lastOp' = Op("explosionTimer")
           /\ influences' = new
           /\ explosionTimers' = Tail(explosionTimers)
           /\ explosions' = {IF e.call = t.call
                             THEN [e EXCEPT !.pushes = @ + CountOf(app, "push", t.call, t.position),
                                            !.pulls = @ + CountOf(app, "pull", t.call, t.position),
                                            !.fired = TRUE]
                             ELSE e : e \in explosions}
           /\ nextId' = nextId + 1
           /\ UNCHANGED <<warp, gridPoints, ambientTimers, applied, collisionVars, trials, game>>

AddGravityWell(n, strengths) ==
    \E pos \in InfluencePositions, s \in strengths :
        /\ Step(n, "addGravityWell")
        /\ influences' = addGravityWell(influences, nextId, pos, s)
        /\ nextId' = nextId + 1
        /\ UNCHANGED <<warp, gridPoints, explosionTimers, ambientTimers, applied,
                       explosions, collisionVars, trials, game>>

\* addAmbientPulse() at a random place
AddAmbientPulse(n, strengths) ==
    \E rnd \in AmbientDraws, s \in strengths :
        /\ Step(n, "addAmbientPulse")
        /\ influences' = addAmbientPulse(influences, nextId, warp, -1, -1, s, rnd)
        /\ nextId' = nextId + 1
        /\ UNCHANGED <<warp, gridPoints, explosionTimers, ambientTimers, applied,
                       explosions, collisionVars, trials, game>>

\* startAmbientPulses: one pulse now, the first addRandomPulse timer pending
StartAmbientPulses(n) ==
    \E rnd \in AmbientDraws :
        /\ Step(n, "startAmbientPulses")
        /\ influences' = addAmbientPulse(influences, nextId, warp, -1, -1, Div(Scale, 2), rnd)
        /\ ambientTimers' = ambientTimers + 1
        /\ nextId' = nextId + 1
        /\ UNCHANGED <<warp, gridPoints, explosionTimers, applied, explosions, collisionVars, trials, game>>

\* the last update() found no influence and moved no point
Quiet == influences = <<>> /\ lastOp.op = "update" /\ ~lastOp.moved

\* an addRandomPulse that schedules no further timer
FireAmbientTimerOnce(n, live) ==
    \E rnd \in AmbientDraws :
        /\ ambientTimers > 0
        /\ steps < n \/ (live /\ Quiet)
        /\ steps' = IF steps < n THEN steps + 1 ELSE steps
        /\ lastOp' = Op("ambientTimer")
        /\ influences' = addAmbientPulse(influences, nextId, warp, -1, -1,
                                         Div(2 * Scale, 10) + Div(rnd.strength * 4 * Scale, 1000),
                                         rnd)
        /\ nextId' = IF steps < n THEN nextId + 1 ELSE nextId
        /\ ambientTimers' = ambientTimers - 1
        /\ UNCHANGED <<warp, gridPoints, explosionTimers, applied, explosions, collisionVars, trials, game>>

\* addRandomPulse: a pulse of strength 0.2 + random * 0.4, and the next timer.
\* live: the timers go on firing once the run's operations are spent, each
\* after the list has emptied and the lattice has come to a standstill, the
\* new influence taking the object id of an expired one
FireAmbientTimer(n, live) ==
    \E rnd \in AmbientDraws :
        /\ ambientTimers > 0
        /\ steps < n \/ (live /\ Quiet)
        /\ steps' = IF steps < n THEN steps + 1 ELSE steps
        /\ lastOp' = Op("ambientTimer")
        /\ influences' = addAmbientPulse(influences, nextId, warp, -1, -1,
                                         Div(2 * Scale, 10) + Div(rnd.strength * 4 * Scale, 1000),
                                         rnd)
        /\ nextId' = IF steps < n THEN nextId + 1 ELSE nextId
        /\ UNCHANGED <<warp, gridPoints, explosionTimers, ambientTimers, applied,
                       explosions, collisionVars, trials, game>>

\* live: update() goes on being called once the run's operations are spent,
\* after the timers still pending have fired
Update(n, live) ==
    /\ steps < n \/ (live /\ explosionTimers = <<>>)
    /\ \E deltaTime \in (IF steps < n THEN DeltaTimes ELSE {Div(TimeScale, 60)}) :
          \E out \in {update(warp, gridPoints, influences, deltaTime)} :
              /\ influences' = out.influences
              /\ gridPoints' = out.points
              /\ applied' = out.forces
              /\ lastOp' = [Op("update") EXCEPT
                               !.clamped = out.clamped,
                               !.pruned = Len(influences) - Len(out.influences),
                               !.moved = out.points # gridPoints]
    /\ steps' = IF steps < n THEN steps + 1 ELSE steps
    /\ UNCHANGED <<warp, explosionTimers, ambientTimers, nextId, explosions, collisionVars, trials, game>>

\* a resize that also empties the influence list
ResizeDiscarding(n) ==
    \E size \in WarpSizes, pattern \in Patterns :
        LET w == resize(warp, size[1], size[2])
        IN  /\ steps < n
            /\ steps' = steps + 1
            /\ lastOp' = [Op("resize") EXCEPT !.moved = Moving(gridPoints)]
            /\ warp' = w
            /\ gridPoints' = initializeGrid(w.cols, w.rows, pattern)
            /\ applied' = NoForces(gridPoints')
            /\ influences' = <<>>
            /\ UNCHANGED <<explosionTimers, ambientTimers, nextId, explosions, collisionVars, trials, game>>

Resize(n) ==
    \E size \in WarpSizes, pattern \in Patterns :
        LET w == resize(warp, size[1], size[2])
        IN  /\ steps < n
            /\ steps' = steps + 1
            /\ lastOp' = [Op("resize") EXCEPT !.moved = Moving(gridPoints)]
            /\ warp' = w
            /\ gridPoints' = initializeGrid(w.cols, w.rows, pattern)
            /\ applied' = NoForces(gridPoints')
            /\ UNCHANGED <<influences, explosionTimers, ambientTimers, nextId,
                           explosions, collisionVars, trials, game>>

\* a clear() that also cancels the pending timers
ClearCancelling(n) ==
    \E pattern \in Patterns :
        /\ Step(n, "clear")
        /\ influences' = <<>>
        /\ gridPoints' = initializeGrid(warp.cols, warp.rows, pattern)
        /\ explosionTimers' = <<>>
        /\ ambientTimers' = 0
        /\ UNCHANGED <<warp, nextId, applied, explosions, collisionVars, trials, game>>

Clear(n) ==
    \E pattern \in Patterns :
        /\ Step(n, "clear")
        /\ influences' = <<>>
        /\ gridPoints' = initializeGrid(warp.cols, warp.rows, pattern)
        /\ UNCHANGED <<warp, explosionTimers, ambientTimers, nextId, applied,
                       explosions, collisionVars, trials, game>>

SetHealingSpeed(n) ==
    \E speed \in Presets :
        /\ Step(n, "setHealingSpeed")
        /\ warp' = setHealingSpeed(warp, speed)
        /\ UNCHANGED <<gridPoints, influences, explosionTimers, ambientTimers, nextId,
                       applied, explosions, collisionVars, trials, game>>

\* render(), getInfluenceCount() and setDebugMode(): the list and the lattice
\* are read, the debug flag is written
ReadOps == {"render", "getInfluenceCount", "setDebugMode"}
Inspect(n) ==
    \E name \in ReadOps :
        /\ Step(n, name)
        /\ UNCHANGED <<warp, gridPoints, influences, explosionTimers, ambientTimers,
                       nextId, applied, explosions, collisionVars, trials, game>>

WarpNext(n, live) ==
    \/ AddEntityInfluence(n, EntityStrengths)
    \/ AddExplosionWarp(n, ExplosionStrengths)
    \/ FireExplosionTimer(n, live)
    \/ AddGravityWell(n, GravityStrengths)
    \/ AddAmbientPulse(n, AmbientStrengths)
    \/ StartAmbientPulses(n)
    \/ FireAmbientTimer(n, FALSE)
    \/ Update(n, live)
    \/ Resize(n)
    \/ Clear(n)
    \/ SetHealingSpeed(n)

CollisionIdle ==
    /\ ents = [i \in Ids |-> NoPair]
    /\ spatialGrid = NewSpatialGrid(CanvasW, CanvasH)
    /\ calls = <<>>
    /\ lastCall = [op |-> "none", cb |-> "none", groupA |-> <<>>, groupB |-> <<>>]
    /\ pairA = NoPair
    /\ pairB = NoPair
    /\ result = Null

SpecWarpInit == WarpInit /\ CollisionIdle
SpecWarp == SpecWarpInit /\ [][WarpNext(MaxSteps, FALSE) \/ Inspect(MaxSteps)]_vars

\* the grid warp system as the Game constructor leaves it: the instant preset;
\* startAmbientPulses() once (its pulse is object 1), then initializeGame():
\* clear() empties the list and a second startAmbientPulses() adds object 2,
\* so two addRandomPulse timers are pending
GameWarpInit ==
    /\ warp = setHealingSpeed(NewWarp(60, 30), "instant")
    /\ gridPoints = initializeGrid(NewWarp(60, 30).cols, NewWarp(60, 30).rows, "rough")
    /\ influences = addAmbientPulse(<<>>, 2, NewWarp(60, 30), -1, -1, Div(Scale, 2),
                                    [x |-> 50, y |-> 50, radius |-> 0, type |-> 99,
                                     decay |-> 0, strength |-> 0])
    /\ explosionTimers = <<>>
    /\ ambientTimers = 2
    /\ nextId = 3
    /\ steps = 0
    /\ lastOp = Op("initializeGame")
    /\ applied = [p \in (0 .. NewWarp(60, 30).rows - 1) \X (0 .. NewWarp(60, 30).cols - 1) |-> zero]
    /\ explosions = {}
    /\ trials = Null
    /\ game = Null

\* a pending setTimeout callback runs, and the game loop calls update() every
\* animation frame. The second is weak fairness of Update, written out: an
\* update() of a non-empty list changes the list, so Update is enabled
\* whenever influences # <<>>
SpecWarpLiveInit == GameWarpInit /\ CollisionIdle
SpecWarpLive ==
    /\ SpecWarpLiveInit
    /\ [][WarpNext(LiveSteps, TRUE)]_vars
    /\ WF_vars(FireExplosionTimer(LiveSteps, TRUE))
    /\ ([]<><<Update(LiveSteps, TRUE)>>_vars \/ []<>(influences = <<>>))

\* the add* operations called with any strength, positive, zero or negative
WeakSteps == 2
WeakStrengths == {0, 0 - Px(1)}

WeakNext(n) ==
    \/ AddEntityInfluence(n, EntityStrengths \cup WeakStrengths)
    \/ AddExplosionWarp(n, {Px(250)} \cup WeakStrengths)
    \/ FireExplosionTimer(n, FALSE)
    \/ AddGravityWell(n, {Div(12 * Scale, 10)} \cup WeakStrengths)
    \/ AddAmbientPulse(n, AmbientStrengths \cup WeakStrengths)
    \/ Update(n, FALSE)

SpecWeak == SpecWarpInit /\ [][WeakNext(WeakSteps)]_vars

\* ---- the four healing presets side by side: four systems of 60 x 30, each
\* constructed with a lattice at rest and set to one preset, then given the
\* same addExplosionWarp call, the same timer callback and the same updates
TrialSteps == 20
TrialStrengths == {Px(1), Px(2), Px(3)}

TrialSystem(preset, pos, strength) ==
    [warp |-> setHealingSpeed(NewWarp(60, 30), preset),
     points |-> initializeGrid(NewWarp(60, 30).cols, NewWarp(60, 30).rows, "flat"),
     influences |-> addExplosionWarp(<<>>, 1, pos, strength)]

StartTrial ==
    \E pos \in InfluencePositions, s \in TrialStrengths, deltaTime \in DeltaTimes :
        /\ trials = Null
        /\ trials' = [systems |-> [p \in Presets |-> TrialSystem(p, pos, s)],
                      timer |-> [position |-> pos, strength |-> s, call |-> 1],
                      deltaTime |-> deltaTime,
                      updates |-> 0]
        /\ UNCHANGED <<collisionVars, warpVars, game>>

TrialTimer ==
    /\ trials # Null
    /\ trials.timer # Null
    /\ trials' = [trials EXCEPT
                      !.timer = Null,
                      !.systems = [p \in Presets |->
                          [trials.systems[p] EXCEPT
                              !.influences = explosionTimerCallback(@, 2, trials.timer)]]]
    /\ UNCHANGED <<collisionVars, warpVars, game>>

TrialUpdate(n) ==
    /\ trials # Null
    /\ trials.updates < n
    /\ trials' = [trials EXCEPT
                      !.updates = @ + 1,
                      !.systems = [p \in Presets |->
                          LET sys == trials.systems[p]
                              out == update(sys.warp, sys.points, sys.influences,
                                            trials.deltaTime)
                          IN  [sys EXCEPT !.points = out.points,
                                          !.influences = out.influences]]]
    /\ UNCHANGED <<collisionVars, warpVars, game>>

HealNext(n) == StartTrial \/ TrialTimer \/ TrialUpdate(n)

SpecHeal == SpecWarpInit /\ [][HealNext(TrialSteps)]_vars

\* the ambient pulses from startAmbientPulses() on, update() being called
\* every frame and the timers firing for ever
AmbientNext(n) ==
    \/ StartAmbientPulses(n)
    \/ Clear(n)
    \/ FireAmbientTimer(n, TRUE)
    \/ Update(n, TRUE)

SpecAmbient ==
    /\ SpecWarpInit
    /\ [][AmbientNext(LiveSteps)]_vars
    /\ WF_vars(FireAmbientTimer(LiveSteps, TRUE))
    /\ ([]<><<Update(LiveSteps, TRUE)>>_vars \/ []<>Quiet)

\* ----------------------------------------------------------- Game: a frame
\* what the collision callbacks of one handleCollisions() did to the grid
\* warp system: an enemy destroyed or only hit by a projectile, a hit on the
\* player absorbed by the shield or not, or no collision
CollisionOutcomes == {"none", "enemyKilled", "enemyHit", "shieldHit", "playerHit"}

GameEntity(pos, v) ==
    [position |-> pos, radius |-> Px(SmallRadius), velocity |-> v, lastPosition |-> Null]

\* the player's movement influence of Game.update: speed > 0.5, strength
\* min(1.5, speed / 2)
playerMovement(list, id, moving, player) ==
    LET speed == magnitude(player.velocity)
    IN  IF moving /\ speed > Div(Scale, 2)
        THEN addEntityInfluence(list, id, player, Min(Div(15 * Scale, 10), Div(speed, 2)))
        ELSE list

\* the grid warp calls of handleCollisions' callbacks and playerHit:
\* [influences, timers], timers being the setTimeout callbacks newly pending
handleCollisions(list, id, hit, entity) ==
    CASE hit = "enemyKilled" ->
            [influences |-> addExplosionWarp(list, id, entity.position,
                                             Px(1) + Div(entity.radius, 20)),
             timers |-> <<[position |-> entity.position,
                           strength |-> Px(1) + Div(entity.radius, 20), call |-> id]>>]
      [] hit = "enemyHit" ->
            [influences |-> addEntityInfluence(list, id, entity, Div(6 * Scale, 10)),
             timers |-> <<>>]
      [] hit = "shieldHit" ->
            [influences |-> addEntityInfluence(list, id, entity, Div(12 * Scale, 10)),
             timers |-> <<>>]
      [] hit = "playerHit" ->
            [influences |-> addExplosionWarp(list, id, entity.position, Px(2)),
             timers |-> <<[position |-> entity.position, strength |-> Px(2), call |-> id]>>]
      [] OTHER -> [influences |-> list, timers |-> <<>>]

\* deltaTime of a frame: 1/60 s
FrameTimes == {Div(TimeScale, 60)}
GameSteps == 2

\* how a frame leaves the variables, given the list its update() was handed,
\* what update() returned and what the collisions did
FrameEnds(entered, pruned, out, hits, list) ==
    /\ steps' = steps + 1
    /\ influences' = list
    /\ gridPoints' = out.points
    /\ applied' = out.forces
    /\ explosionTimers' = explosionTimers \o hits.timers
    /\ explosions' = explosions \cup
            {[call |-> hits.timers[k].call, strength |-> hits.timers[k].strength,
              pushes |-> CountOf(hits.influences, "push", hits.timers[k].call,
                                 hits.timers[k].position),
              pulls |-> CountOf(hits.influences, "pull", hits.timers[k].call,
                                hits.timers[k].position),
              fired |-> FALSE] : k \in 1 .. Len(hits.timers)}
    /\ nextId' = nextId + Len(entered) + Len(hits.influences)
    /\ lastOp' = [Op("frame") EXCEPT !.clamped = out.clamped, !.pruned = pruned,
                                     !.entered = entered,
                                     !.registered = hits.influences]
    /\ UNCHANGED <<warp, ambientTimers, collisionVars, trials, game>>

\* a frame that detects collisions before the grid warp update
GameUpdateCollisionsFirst(n) ==
    \E moving \in BOOLEAN, deltaTime \in FrameTimes, pos \in InfluencePositions,
       v \in EntityVelocities, hit \in CollisionOutcomes :
        LET entered == playerMovement(<<>>, nextId, moving, GameEntity(pos, v))
            hits == handleCollisions(<<>>, nextId + Len(entered), hit, GameEntity(pos, v))
        IN  \E out \in {update(warp, gridPoints,
                                influences \o entered \o hits.influences, deltaTime)} :
                /\ steps < n
                /\ FrameEnds(entered,
                             Len(influences) + Len(entered) + Len(hits.influences)
                                 - Len(out.influences),
                             out, hits, out.influences)

\* the grid warp side of one Game.update while playing: the movement
\* influence, gridWarpSystem.update(deltaTime), then handleCollisions()
GameUpdate(n) ==
    \E moving \in BOOLEAN, deltaTime \in FrameTimes, pos \in InfluencePositions,
       v \in EntityVelocities :
        LET entered == playerMovement(<<>>, nextId, moving, GameEntity(pos, v))
        IN  \E out \in {update(warp, gridPoints, influences \o entered, deltaTime)} :
                \E hit \in CollisionOutcomes :
                    LET hits == handleCollisions(<<>>, nextId + Len(entered), hit,
                                                 GameEntity(pos, v))
                    IN  /\ steps < n
                        /\ FrameEnds(entered,
                                     Len(influences) + Len(entered) - Len(out.influences),
                                     out, hits, out.influences \o hits.influences)

\* restartGame / initializeGame: clear(), then startAmbientPulses()
InitializeGame(n) ==
    \E pattern \in Patterns, rnd \in AmbientDraws :
        /\ Step(n, "initializeGame")
        /\ influences' = addAmbientPulse(<<>>, nextId, warp, -1, -1, Div(Scale, 2), rnd)
        /\ gridPoints' = initializeGrid(warp.cols, warp.rows, pattern)
        /\ ambientTimers' = ambientTimers + 1
        /\ nextId' = nextId + 1
        /\ UNCHANGED <<warp, explosionTimers, applied, explosions, collisionVars, trials, game>>

GameNext(n) ==
    \/ GameUpdate(n)
    \/ FireExplosionTimer(n, FALSE)
    \/ FireAmbientTimer(n, FALSE)
    \/ InitializeGame(n)
    \/ Resize(n)

SpecGameInit == GameWarpInit /\ CollisionIdle
SpecGame == SpecGameInit /\ [][GameNext(GameSteps)]_vars

\* ------------------------------------------------------------- Game rules
\* Game.update as far as state, score, lives, the player's power-ups and the
\* entity lists go; which entities overlap in a frame, and what Math.random()
\* draws, is the frame's input.  What the same frame does to the lattice is
\* GameUpdate above.
EnemyTypes == <<"WANDERER", "CHASER", "SHOOTER", "SPLITTER">>

\* Enemy constructor: health per type
enemyHealth(type) ==
    CASE type = "WANDERER" -> 1 [] type = "CHASER" -> 2
      [] type = "SHOOTER" -> 3 [] type = "SPLITTER" -> 4

NewEnemy(id, type) ==
    [id |-> id, type |-> type, health |-> enemyHealth(type),
     maxHealth |-> enemyHealth(type), active |-> TRUE, shootCooldown |-> 0,
     hasplit |-> FALSE]

\* Enemy.takeDamage(damage); the caller reads health <= 0
enemyTakeDamage(e, damage) == [e EXCEPT !.health = @ - damage]

getEnemyScore(type) ==
    CASE type = "WANDERER" -> 10 [] type = "CHASER" -> 20
      [] type = "SHOOTER" -> 50 [] type = "SPLITTER" -> 100 [] OTHER -> 10

\* Player constructor: powerUps
NewPlayer ==
    [rapidFire |-> FALSE, rapidFireTimer |-> 0, multiShot |-> FALSE, multiShotTimer |-> 0,
     shield |-> FALSE, shieldTimer |-> 0, shieldHits |-> 0]

updatePowerUpTimers(p, deltaTime) ==
    LET r == IF p.rapidFire
             THEN [p EXCEPT !.rapidFireTimer = @ - deltaTime,
                            !.rapidFire = ~(p.rapidFireTimer - deltaTime <= 0)]
             ELSE p
        m == IF r.multiShot
             THEN [r EXCEPT !.multiShotTimer = @ - deltaTime,
                            !.multiShot = ~(r.multiShotTimer - deltaTime <= 0)]
             ELSE r
    IN  IF m.shield
        THEN [m EXCEPT !.shieldTimer = @ - deltaTime,
                       !.shield = ~(m.shieldTimer - deltaTime <= 0 \/ m.shieldHits <= 0)]
        ELSE m

activatePowerUp(p, type) ==
    CASE type = "RAPID_FIRE" -> [p EXCEPT !.rapidFire = TRUE, !.rapidFireTimer = 10 * TimeScale]
      [] type = "MULTI_SHOT" -> [p EXCEPT !.multiShot = TRUE, !.multiShotTimer = 8 * TimeScale]
      [] type = "SHIELD" -> [p EXCEPT !.shield = TRUE, !.shieldTimer = 15 * TimeScale,
                                      !.shieldHits = 3]
      [] OTHER -> p

\* Player.takeDamage(): [player, damaged]
playerTakeDamage(p) ==
    IF p.shield THEN [player |-> [p EXCEPT !.shieldHits = @ - 1], damaged |-> FALSE]
    ELSE [player |-> p, damaged |-> TRUE]

\* the types spawnEnemy chooses from in a wave
spawnChoices(wave) ==
    IF wave < 3 THEN <<"WANDERER", "CHASER">>
    ELSE IF wave < 6 THEN <<"WANDERER", "CHASER", "SHOOTER">>
    ELSE EnemyTypes

\* randomChoice: the first or the last of the list
Kinds == {"first", "last"}
randomChoice(list, kind) == IF kind = "first" THEN list[1] ELSE list[Len(list)]

spawnEnemy(g, kind) ==
    [g EXCEPT !.enemies = Append(@, NewEnemy(g.nextEnemy, randomChoice(spawnChoices(g.wave), kind))),
              !.nextEnemy = @ + 1]

RECURSIVE spawnEnemies(_, _, _)
spawnEnemies(g, count, kind) ==
    IF count = 0 THEN g ELSE spawnEnemies(spawnEnemy(g, kind), count - 1, kind)

\* drop: the type of the power-up a Math.random() draw below the chance
\* spawns, or "none"
spawnWave(g, kind, drop) ==
    LET spawned == spawnEnemies(g, Min(3 + g.wave, 12), kind)
    IN  IF g.wave > 1 /\ drop # "none"
        THEN [spawned EXCEPT !.powerUps = Append(@, drop)]
        ELSE spawned

\* the fields initializeGame sets; isPaused belongs to the MobileControls and
\* is left as it is
initializeGame(isPaused, kind) ==
    spawnWave([gameState |-> "PLAYING", isPaused |-> isPaused,
               score |-> 0, lives |-> 3, wave |-> 1,
               invulnerabilityTimer |-> 0, enemySpawnTimer |-> 0,
               player |-> NewPlayer, enemies |-> <<>>, enemyProjectiles |-> 0,
               powerUps |-> <<>>, nextEnemy |-> 1,
               \* what has happened: the operation that ran last, the ids of
               \* the enemies in the order their value was added to the score,
               \* the lives lost in the last frame, the hits the current
               \* shield absorbed, the calls of gameOver() in this game
               lastOp |-> "initializeGame", scored |-> <<>>, livesLost |-> 0,
               absorbed |-> 0, gameOvers |-> 0],
              kind, "none")

pauseGame(g) == IF g.gameState = "PLAYING" THEN [g EXCEPT !.gameState = "PAUSED"] ELSE g
resumeGame(g) == IF g.gameState = "PAUSED" THEN [g EXCEPT !.gameState = "PLAYING"] ELSE g

\* one 'gamePauseToggle' listener of the Game
pauseListener(g, paused) == IF paused THEN pauseGame(g) ELSE resumeGame(g)

\* MobileControls.togglePause: the flag flips and the event is dispatched to
\* the two listeners the Game constructor registered
togglePause(g) ==
    LET flipped == [g EXCEPT !.isPaused = ~@]
    IN  pauseListener(pauseListener(flipped, flipped.isPaused), flipped.isPaused)

gameOver(g) == [g EXCEPT !.gameState = "GAME_OVER", !.gameOvers = @ + 1]

playerHit(g) ==
    LET hit == playerTakeDamage(g.player)
    IN  IF ~hit.damaged
        THEN [g EXCEPT !.player = hit.player, !.absorbed = @ + 1]
        ELSE LET h == [g EXCEPT !.lives = @ - 1,
                                !.invulnerabilityTimer = 2 * TimeScale,
                                !.livesLost = @ + 1]
             IN  IF h.lives <= 0 THEN gameOver(h) ELSE h

RECURSIVE playerHits(_, _)
playerHits(g, count) == IF count = 0 THEN g ELSE playerHits(playerHit(g), count - 1)

\* activateBomb: every enemy of the list is scored and destroyed, every
\* enemy projectile destroyed
RECURSIVE bombLoop(_, _)
bombLoop(g, i) ==
    IF i > Len(g.enemies) THEN g
    ELSE bombLoop([g EXCEPT !.score = @ + getEnemyScore(g.enemies[i].type),
                            !.scored = Append(@, g.enemies[i].id),
                            !.enemies[i].active = FALSE], i + 1)

activateBomb(g) == [bombLoop(g, 1) EXCEPT !.enemyProjectiles = 0]

collectPowerUp(g, type) ==
    IF type = "BOMB" THEN activateBomb(g)
    ELSE [g EXCEPT !.player = activatePowerUp(@, type),
                   !.absorbed = IF type = "SHIELD" THEN 0 ELSE @]

\* the player projectiles / enemies pass: shots lists, in callback order, the
\* enemy each colliding projectile was tested against; an enemy destroyed
\* earlier in the pass is skipped
RECURSIVE shotLoop(_, _, _, _)
shotLoop(g, shots, k, drop) ==
    IF k > Len(shots) THEN g
    ELSE LET i == shots[k]
         IN  IF i > Len(g.enemies) \/ ~g.enemies[i].active
             THEN shotLoop(g, shots, k + 1, drop)
             ELSE LET e == enemyTakeDamage(g.enemies[i], 1)
                  IN  IF e.health <= 0
                      THEN shotLoop([g EXCEPT
                                        !.score = @ + getEnemyScore(e.type),
                                        !.scored = Append(@, e.id),
                                        !.powerUps = IF drop # "none" THEN Append(@, drop) ELSE @,
                                        !.enemies[i] = [e EXCEPT !.active = FALSE]],
                                    shots, k + 1, drop)
                      ELSE shotLoop([g EXCEPT !.enemies[i] = e], shots, k + 1, drop)

\* the enemies / player pass over the active enemies that overlap the player
RECURSIVE touchLoop(_, _, _)
touchLoop(g, touching, i) ==
    IF i > Len(g.enemies) THEN g
    ELSE touchLoop(IF i \in touching /\ g.enemies[i].active THEN playerHit(g) ELSE g,
                   touching, i + 1)

\* the power-ups / player pass: every power-up collected is destroyed
RECURSIVE pickLoop(_, _, _)
pickLoop(g, items, i) ==
    IF i > Len(items) THEN g ELSE pickLoop(collectPowerUp(g, items[i]), items, i + 1)

\* handleCollisions, given what overlaps
handleGameCollisions(g, in) ==
    LET shot == shotLoop(g, in.shots, 1, in.drop)
        struck == Min(in.proj, shot.enemyProjectiles)
        hurt == IF shot.invulnerabilityTimer <= 0
                THEN touchLoop(playerHits([shot EXCEPT !.enemyProjectiles = @ - struck],
                                          struck),
                               in.touching, 1)
                ELSE shot
    IN  IF in.pick
        THEN [pickLoop(hurt, hurt.powerUps, 1) EXCEPT !.powerUps = <<>>]
        ELSE hurt

\* enemies.forEach of update: cooldown, shooting, splitting
RECURSIVE enemyLoop(_, _, _)
enemyLoop(g, i, deltaTime) ==
    IF i > Len(g.enemies) THEN g
    ELSE LET e == g.enemies[i]
             cooled == IF e.shootCooldown > 0 THEN e.shootCooldown - deltaTime
                       ELSE e.shootCooldown
             shoots == e.type = "SHOOTER" /\ cooled <= 0
             splits == e.type = "SPLITTER" /\ ~e.hasplit /\ 2 * e.health <= e.maxHealth
             after == [e EXCEPT !.shootCooldown = IF shoots THEN Div(3 * TimeScale, 2)
                                                  ELSE cooled,
                                !.hasplit = @ \/ splits]
             g1 == [g EXCEPT !.enemies[i] = after,
                             !.enemyProjectiles = IF shoots THEN @ + 1 ELSE @]
         IN  enemyLoop(IF splits
                       THEN [g1 EXCEPT
                                !.enemies = @ \o [j \in 1 .. 3 |->
                                                     NewEnemy(g1.nextEnemy + j - 1, "WANDERER")],
                                !.nextEnemy = @ + 3]
                       ELSE g1,
                       i + 1, deltaTime)

IsActive(e) == e.active

\* the end of update: inactive entities removed, spawn timer, wave completion
endOfFrame(g, deltaTime, in) ==
    LET kept == [g EXCEPT !.enemies = SelectSeq(@, IsActive),
                          !.enemySpawnTimer = @ + deltaTime]
        spawned == IF kept.enemySpawnTimer > 2 * TimeScale /\ Len(kept.enemies) < 10
                   THEN [spawnEnemy(kept, in.kind) EXCEPT !.enemySpawnTimer = 0]
                   ELSE kept
    IN  IF Len(spawned.enemies) = 0
        THEN spawnWave([spawned EXCEPT !.wave = @ + 1], in.kind, in.drop)
        ELSE spawned

\* Game.update(deltaTime)
updateGame(g, deltaTime, in) ==
    LET polled == [g EXCEPT !.isPaused = FALSE, !.lastOp = "update", !.livesLost = 0]
        toggled == IF g.isPaused
                   THEN IF g.gameState = "PAUSED" THEN resumeGame(polled) ELSE pauseGame(polled)
                   ELSE polled
        timed == [toggled EXCEPT
                     !.invulnerabilityTimer = IF @ > 0 THEN @ - deltaTime ELSE @,
                     !.player = updatePowerUpTimers(@, deltaTime)]
    IN  IF toggled.gameState # "PLAYING" THEN toggled
        ELSE endOfFrame(handleGameCollisions(enemyLoop(timed, 1, deltaTime), in),
                        deltaTime, in)

\* what a frame is given: the enemies hit by projectiles in callback order,
\* the power-up a draw spawns, the enemy projectiles and the enemies that
\* overlap the player, whether the player overlaps the power-ups, and the
\* draw of the enemy type
FrameInputs ==
    [shots : {<<>>, <<1>>, <<1, 1>>, <<1, 2>>},
     drop : {"none", "SHIELD", "BOMB"},
     proj : {0, 1},
     touching : {{}, {1}, {1, 2, 3, 4}},
     pick : BOOLEAN,
     kind : Kinds]

RuleSteps == 3

RulesInit ==
    /\ \E kind \in Kinds : game = initializeGame(FALSE, kind)
    /\ LatticeInit
    /\ CollisionIdle

PressPause(n) ==
    /\ steps < n
    /\ steps' = steps + 1
    /\ game' = [togglePause(game) EXCEPT !.lastOp = "togglePause"]
    /\ UNCHANGED <<collisionVars, warp, gridPoints, influences, explosionTimers,
                   ambientTimers, nextId, lastOp, applied, explosions, trials>>

Frame(n) ==
    \E deltaTime \in FrameTimes, in \in FrameInputs :
        /\ steps < n
        /\ steps' = steps + 1
        /\ game' = updateGame(game, deltaTime, in)
        /\ UNCHANGED <<collisionVars, warp, gridPoints, influences, explosionTimers,
                       ambientTimers, nextId, lastOp, applied, explosions, trials>>

RestartGame(n) ==
    \E kind \in Kinds :
        /\ steps < n
        /\ steps' = steps + 1
        /\ game' = [initializeGame(game.isPaused, kind) EXCEPT !.lastOp = "restartGame"]
        /\ UNCHANGED <<collisionVars, warp, gridPoints, influences, explosionTimers,
                       ambientTimers, nextId, lastOp, applied, explosions, trials>>

RulesNext(n) == PressPause(n) \/ Frame(n) \/ RestartGame(n)

SpecRules == RulesInit /\ [][RulesNext(RuleSteps)]_vars

\* ---------------------------------------------------------------- claims
\* pairs of the last pass's callback invocations, and the brute-force scan
Reported == {<<calls[i].entityA, calls[i].entityB>> : i \in 1 .. Len(calls)}

BruteForce(es, groupA, groupB) ==
    {<<groupA[i], groupB[j]>> : i \in 1 .. Len(groupA), j \in 1 .. Len(groupB)} \cap
    {p \in Ids \X Ids :
        /\ es[p[1]].active
        /\ es[p[2]].active
        /\ checkCollision(p[1], p[2], es[p[1]], es[p[2]]) # Null}

\* C1 (as claimed): after a detectCollisions pass whose callback changes no
\* entity, the reported pairs are exactly the pairs of the brute-force scan
\* over the active entities, wherever the entities lie.
C1_GridEqualsBruteForce ==
    lastCall.op = "detectCollisions" /\ lastCall.cb = "none"
        => Reported = BruteForce(ents, GroupA, GroupB)

\* C2 (as claimed): no callback invocation of a pass is handed an entity
\* that is inactive at the moment of the invocation.
C2_NoInactiveInCallback ==
    \A i \in 1 .. Len(calls) : calls[i].activeA /\ calls[i].activeB

PairDistSq == (pairB.x - pairA.x) * (pairB.x - pairA.x)
              + (pairB.y - pairA.y) * (pairB.y - pairA.y)
PairRadius == pairA.radius + pairB.radius

\* C3: checkCollision(A, B) is non-null exactly when the centre distance d is
\* below rA + rB (stated on squares, without the square root), its
\* penetration is rA + rB - d (d to the fixed-point resolution), and the two
\* scenarios of the specification come out as penetration 1 and null.
C3_CheckCollisionIffOverlap ==
    lastCall.op = "checkCollision" =>
        /\ (result # Null) <=> (PairDistSq < PairRadius * PairRadius)
        /\ result # Null =>
              LET d == PairRadius - result.penetration
              IN  d >= 0 /\ d * d <= PairDistSq /\ PairDistSq < (d + 1) * (d + 1)
        /\ (pairA = Entity(<<0, 0>>, 5, TRUE) /\ pairB = Entity(<<8, 0>>, 4, TRUE))
              => (result # Null /\ result.penetration = Px(1))
        /\ (pairA = Entity(<<0, 0>>, 5, TRUE) /\ pairB = Entity(<<10, 0>>, 4, TRUE))
              => result = Null

\* C3 witness: the specification's first scenario has been checked
C3_Witness ==
    /\ lastCall.op = "checkCollision"
    /\ pairA = Entity(<<0, 0>>, 5, TRUE)
    /\ pairB = Entity(<<8, 0>>, 4, TRUE)
    /\ result # Null

Sign(a) == IF a > 0 THEN 1 ELSE IF a < 0 THEN -1 ELSE 0

\* length 1 up to the rounding of one square root and two divisions
UnitLength(n) ==
    /\ (Scale - 2) * (Scale - 2) <= n.x * n.x + n.y * n.y
    /\ n.x * n.x + n.y * n.y <= (Scale + 2) * (Scale + 2)

\* C4 (as claimed): every non-null result carries a normal of length 1 that
\* points from A's centre toward B's centre, coincident centres included.
C4_UnitNormal ==
    (lastCall.op = "checkCollision" /\ result # Null) =>
        /\ UnitLength(result.normal)
        /\ Sign(result.normal.x) = Sign(pairB.x - pairA.x)
        /\ Sign(result.normal.y) = Sign(pairB.y - pairA.y)

\* ------------------------------------------------------ claims: grid warp
RestX(p) == Px(p[2] * GridSize)
RestY(p) == Px(p[1] * GridSize)
Displacement(points, p) ==
    Sqrt((points[p].x - RestX(p)) * (points[p].x - RestX(p))
         + (points[p].y - RestY(p)) * (points[p].y - RestY(p)))

\* C5: after every update() every lattice point lies within maxDisplacement
\* of its rest position (col * gridSize, row * gridSize).
C5_DisplacementBounded ==
    lastOp.op = "update" =>
        \A p \in DOMAIN gridPoints : Displacement(gridPoints, p) <= Px(MaxDisplacement)

\* C5 witness: an update in which the clamp engaged on some point
C5_Witness == lastOp.op = "update" /\ lastOp.clamped

InfluenceIds == 1 .. (2 * LiveSteps + 2)
Present(id) == \E k \in 1 .. Len(influences) : influences[k].id = id
Listed(list) == {list[k].id : k \in 1 .. Len(list)}
Weakened ==
    \A k \in 1 .. Len(influences), m \in 1 .. Len(influences') :
        influences[k].id = influences'[m].id
            => influences'[m].strength < influences[k].strength

\* C6: in every update() each influence that stays in the list comes out
\* strictly weaker than it went in, and with update() called again and again
\* every influence in the list is eventually out of it.
C6_DecaysAndExpires ==
    /\ [][lastOp'.op = "update" => Weakened]_vars
    /\ \A id \in InfluenceIds : []<>~Present(id)

\* C6 witness: an influence that has been through an update and is still listed
C6_Witness ==
    /\ lastOp.op = "update"
    /\ influences # <<>>
    /\ lastOp.pruned = 0

\* C7: after every update() every listed influence has strength >= 1, and
\* an influence that has left the list is never in it again.
C7_PrunedBelowThreshold ==
    /\ [](lastOp.op = "update" =>
             \A k \in 1 .. Len(influences) : influences[k].strength >= Px(1))
    /\ [][\A id \in 1 .. nextId - 1 : ~Present(id) => ~(id \in Listed(influences'))]_vars

\* C7 witness: an update that removed an influence and kept another
C7_Witness ==
    /\ lastOp.op = "update"
    /\ lastOp.pruned > 0
    /\ influences # <<>>

AtRest(points) ==
    \A p \in DOMAIN points :
        /\ points[p].velocity = zero
        /\ Abs(points[p].x - RestX(p)) <= Div(Scale, 5)
        /\ Abs(points[p].y - RestY(p)) <= Div(Scale, 5)

\* C8 (as claimed): after resize() the influence list is empty and no
\* lattice point carries deformation or velocity.
C8_ResizeDiscardsAll ==
    lastOp.op = "resize" => (influences = <<>> /\ AtRest(gridPoints))

\* C8 (amended): resize() re-creates every lattice point at its rest
\* position (within the initial jitter) with zero velocity, and leaves the
\* influence list as it was.
C8_ResizeKeepsInfluences ==
    [][lastOp'.op = "resize" => (influences' = influences /\ AtRest(gridPoints'))]_vars

\* C8 witness: a resize of a moving lattice with influences in the list
C8_Witness ==
    /\ lastOp.op = "resize"
    /\ lastOp.moved
    /\ influences # <<>>

\* C9 (as claimed): every addExplosionWarp call has appended exactly one
\* push, and once its timer has fired exactly one pull, whatever the strength.
C9_PushThenPull ==
    \A e \in explosions :
        /\ e.pushes = 1
        /\ e.pulls = (IF e.fired THEN 1 ELSE 0)

\* C9 (amended): every addExplosionWarp call has appended exactly one push;
\* once its timer has fired it has appended exactly one pull when the
\* strength is above 1.0 and none otherwise; no pull before the timer fires.
C9_PushThenPullWhenStrong ==
    \A e \in explosions :
        /\ e.pushes = 1
        /\ e.pulls = (IF e.fired /\ e.strength > Px(1) THEN 1 ELSE 0)

\* C9 witness: the timer of a call with strength above 1.0 has fired
C9_Witness ==
    \E e \in explosions : e.fired /\ e.strength > Px(1) /\ e.pushes = 1 /\ e.pulls = 1

ForcesOf(list, w, points) ==
    [p \in DOMAIN points |-> cellForce(influenceMap(list, w), p[1], p[2])]

\* C10: the forces an update() applies to the points are those of the list
\* as the decay-and-prune phase left it: decayed strengths, nothing pruned.
C10_ForcesFromDecayedList ==
    lastOp.op = "update" => applied = ForcesOf(influences, warp, gridPoints)

\* C10 witness: an update that pruned an influence and applied a force
C10_Witness ==
    /\ lastOp.op = "update"
    /\ lastOp.pruned > 0
    /\ \E p \in DOMAIN applied : applied[p] # zero

\* C13: clear() empties the influence list and leaves every pending timer
\* pending; a timer callback that runs, after a clear() as at any other time,
\* appends to the list as it then is: the secondary pulse of an explosion
\* stronger than 1.0 and the ambient pulse each append one influence.
C13_ClearKeepsTimers ==
    /\ [][lastOp'.op = "clear" =>
              /\ influences' = <<>>
              /\ explosionTimers' = explosionTimers
              /\ ambientTimers' = ambientTimers]_vars
    /\ [][lastOp'.op = "explosionTimer" =>
              /\ explosionTimers # <<>>
              /\ Head(explosionTimers).strength > Px(1) =>
                     /\ Len(influences') = Len(influences) + 1
                     /\ SubSeq(influences', 1, Len(influences)) = influences
                     /\ influences'[Len(influences')].type = "pull"
                     /\ influences'[Len(influences')].call = Head(explosionTimers).call]_vars
    /\ [][lastOp'.op = "ambientTimer" =>
              /\ ambientTimers > 0
              /\ Len(influences') = Len(influences) + 1
              /\ SubSeq(influences', 1, Len(influences)) = influences]_vars

\* C13 witness: the secondary pulse of an explosion is alone in the list: the
\* list, main push included, was cleared while the timer was pending
C13_Witness ==
    /\ lastOp.op = "explosionTimer"
    /\ Len(influences) = 1
    /\ influences[1].type = "pull"
    /\ \E e \in explosions : e.call = influences[1].call /\ e.fired /\ e.pushes = 1

\* the operations that add influences, and what one of them appended
AddOps == {"addEntityInfluence", "addExplosionWarp", "addGravityWell", "addAmbientPulse"}
Added == Appended(influences, influences')
Feeble(list) == \A k \in 1 .. Len(list) : list[k].strength <= 0

\* C16: an add* call with a strength that is zero or negative changes no
\* lattice point, and the next update(), whatever its deltaTime, leaves the
\* points, the forces and the influence list exactly as it would have left
\* them without the call, so that every later update does too; the timer of
\* such an addExplosionWarp appends nothing.
C16_WeakAddHasNoEffect ==
    /\ [][lastOp'.op \in AddOps /\ Added # <<>> /\ Feeble(Added) =>
              /\ gridPoints' = gridPoints
              /\ \A deltaTime \in {Div(TimeScale, 60)} :
                    LET with == update(warp, gridPoints', influences', deltaTime)
                        without == update(warp, gridPoints, influences, deltaTime)
                    IN  /\ with.points = without.points
                        /\ with.forces = without.forces
                        /\ with.influences = without.influences]_vars
    /\ [][lastOp'.op = "explosionTimer" /\ Head(explosionTimers).strength <= 0 =>
              influences' = influences]_vars

\* C16 witness: an add* call of zero or negative strength has put its
\* influence behind a strong one, on a lattice that is not at rest
C16_Witness ==
    /\ lastOp.op \in AddOps
    /\ Len(influences) >= 2
    /\ influences[Len(influences)].strength < 0
    /\ influences[1].strength > Px(20)
    /\ \E p \in DOMAIN gridPoints : gridPoints[p].x # gridPoints[p].targetX

\* the pair (springConstant, damping) of w is that of preset p, within the
\* preset's tolerance
Tolerance(p) == IF p = "instant" THEN 5 ELSE 1
MatchesPreset(w, p) ==
    /\ Abs(w.springConstant - setHealingSpeed(w, p).springConstant) < Tolerance(p)
    /\ Abs(w.damping - setHealingSpeed(w, p).damping) < Tolerance(p)

\* C17: after setHealingSpeed(p) the preset read back is p, for each of the
\* four presets; the preset read is "custom" exactly when the current pair
\* matches no preset within tolerance, and it is "custom" for the pair a
\* system is constructed with.
C17_PresetRoundTrip ==
    /\ [][\A p \in Presets :
              lastOp'.op = "setHealingSpeed" /\ warp' = setHealingSpeed(warp, p)
                  => getHealingSpeedPreset(warp') = p]_vars
    /\ [](getHealingSpeedPreset(warp) = "custom"
              <=> ~\E p \in Presets : MatchesPreset(warp, p))
    /\ [](warp.springConstant = NewWarp(60, 30).springConstant
              /\ warp.damping = NewWarp(60, 30).damping
              => getHealingSpeedPreset(warp) = "custom")

\* C17 witness: setHealingSpeed has just selected a preset on a system that
\* read "custom" before, and that preset is read back
C17_Witness ==
    /\ lastOp.op = "setHealingSpeed"
    /\ steps = 1
    /\ getHealingSpeedPreset(warp) = "medium"
    /\ getHealingSpeedPreset(NewWarp(60, 30)) = "custom"

\* C18: a resize to the width and height the system already has leaves the
\* numbers of rows and columns, the set of lattice points and the rest
\* position of every point as they were.
C18_ResizeSameSizeKeepsRest ==
    [][lastOp'.op = "resize"
        /\ warp'.canvasWidth = warp.canvasWidth
        /\ warp'.canvasHeight = warp.canvasHeight
        => /\ warp'.cols = warp.cols /\ warp'.rows = warp.rows
           /\ DOMAIN gridPoints' = DOMAIN gridPoints
           /\ \A p \in DOMAIN gridPoints :
                 /\ gridPoints'[p].targetX = gridPoints[p].targetX
                 /\ gridPoints'[p].targetY = gridPoints[p].targetY]_vars

\* C18 witness: the first operation on the 60 x 30 system was a resize to
\* 60 x 30, which drew new jitter around the same rest positions
C18_Witness ==
    /\ lastOp.op = "resize"
    /\ steps = 1
    /\ warp.canvasWidth = 60 /\ warp.canvasHeight = 30
    /\ Cardinality(DOMAIN gridPoints) = 6
    /\ \E p \in DOMAIN gridPoints : gridPoints[p].x # gridPoints[p].targetX

\* the list kept every influence it had, unchanged and in place
Kept == Len(influences') >= Len(influences)
            /\ SubSeq(influences', 1, Len(influences)) = influences

\* C19: only update() and clear() take influences out of the list or change
\* them: every other operation and every timer callback keeps the list it
\* found as a prefix of the list it leaves; an add* operation appends at
\* least one influence and changes no lattice point; resize,
\* setHealingSpeed, setDebugMode, render and getInfluenceCount leave the list
\* as it was.
C19_OnlyUpdateAndClearRemove ==
    [][/\ lastOp'.op \notin {"update", "clear"} => Kept
       /\ lastOp'.op \in AddOps =>
              Len(influences') > Len(influences) /\ gridPoints' = gridPoints
       /\ lastOp'.op \in {"resize", "setHealingSpeed"} \cup ReadOps =>
              influences' = influences]_vars

\* C19 witness: two influences were added one behind the other, and the
\* list has then come through a resize or a render
C19_Witness ==
    /\ lastOp.op \in {"resize", "render"}
    /\ Len(influences) >= 2
    /\ influences[1].id # influences[2].id
    /\ steps = MaxSteps

\* mean distance of the points of a lattice from their rest positions
RECURSIVE SumOver(_, _)
SumOver(points, dom) ==
    IF dom = {} THEN 0
    ELSE LET p == CHOOSE q \in dom : TRUE
             dx == points[p].x - points[p].targetX
             dy == points[p].y - points[p].targetY
         IN  Sqrt(dx * dx + dy * dy) + SumOver(points, dom \ {p})
MeanResidual(preset) ==
    LET points == trials.systems[preset].points
    IN  Div(SumOver(points, DOMAIN points), Cardinality(DOMAIN points))

\* C20 (as claimed): after the same explosion and the same updates from rest,
\* the mean residual displacement under the four presets is ordered
\* slow >= medium >= fast >= instant.
C20_HealingOrder ==
    trials # Null /\ trials.updates >= 1 =>
        /\ MeanResidual("slow") >= MeanResidual("medium")
        /\ MeanResidual("medium") >= MeanResidual("fast")
        /\ MeanResidual("fast") >= MeanResidual("instant")

\* ------------------------------------------------- claims: collision passes
\* the entities the handler cb deactivates when it is given the call c
Destroys(cb, c) ==
    CASE cb = "destroyA"    -> {c.entityA}
      [] cb = "destroyB"    -> {c.entityB}
      [] cb = "destroyBoth" -> {c.entityA, c.entityB}
      [] OTHER              -> {}

\* C14: a pass changes no entity by itself: position and radius of every
\* entity are as before the pass, an entity is inactive after it exactly when
\* it was inactive before or the callback deactivated it in one of the
\* reported calls, and the grid warp system is untouched.
C14_PassChangesNothing ==
    [][lastCall'.op \in {"detectCollisions", "detectCollisionsWithTarget"} =>
          /\ \A i \in Ids :
                /\ ents'[i].x = ents[i].x /\ ents'[i].y = ents[i].y
                /\ ents'[i].radius = ents[i].radius
                /\ ents'[i].active =
                       (ents[i].active /\
                        ~\E k \in 1 .. Len(calls') : i \in Destroys(lastCall'.cb, calls'[k]))
          /\ UNCHANGED warpVars]_vars

\* C14 witness: a pass reported a collision, its callback deactivated an
\* entity, and another active entity came through the pass as it was
C14_Witness ==
    /\ lastCall.op \in {"detectCollisions", "detectCollisionsWithTarget"}
    /\ calls # <<>>
    /\ lastCall.cb = "destroyB"
    /\ ~ents[calls[1].entityB].active
    /\ ents[calls[1].entityA].active

\* the entity e is active and touches the target (entity 1)
HitsTarget(e) == ents[e].active /\ checkCollision(e, 1, ents[e], ents[1]) # Null

\* C15: a pass against the target reports, in array order and once each,
\* exactly the entities that were active and colliding with the target when
\* the pass began, entityB being the target, and none when the target was
\* inactive; the spatial grid is neither read nor written.
C15_TargetPassReportsEach ==
    [][lastCall'.op = "detectCollisionsWithTarget" =>
          LET expected == IF ents[1].active THEN SelectSeq(GroupB, HitsTarget) ELSE <<>>
          IN  /\ Len(calls') = Len(expected)
              /\ \A k \in 1 .. Len(expected) :
                    /\ calls'[k].entityA = expected[k]
                    /\ calls'[k].entityB = 1
                    /\ calls'[k].result =
                           checkCollision(expected[k], 1, ents[expected[k]], ents[1])
              /\ spatialGrid' = spatialGrid]_vars

\* C15 witness: both entities were reported against a target that lies
\* wholly outside the canvas, in no cell of the grid, and that the first
\* callback deactivated
C15_Witness ==
    /\ lastCall.op = "detectCollisionsWithTarget"
    /\ lastCall.cb = "destroyB"
    /\ Len(calls) = 2
    /\ calls[1].entityA = 3 /\ calls[2].entityA = 4
    /\ ents[1].x - ents[1].radius >= Px(CanvasW)

\* ---------------------------------------------------- claims: spatial grid
\* the bounding box of e reaches into the cell k = <<col, row>>, which covers
\* [col * cellSize, (col + 1) * cellSize) on each axis
Touches(e, k) ==
    /\ e.x - e.radius < Px((k[1] + 1) * CellSize) /\ e.x + e.radius >= Px(k[1] * CellSize)
    /\ e.y - e.radius < Px((k[2] + 1) * CellSize) /\ e.y + e.radius >= Px(k[2] * CellSize)
Holds(sg, k, id) == \E i \in 1 .. Len(sg.grid[k]) : sg.grid[k][i] = id

\* C21: the grid a detectCollisions pass has built references every
\* inserted entity (the entities of groupB active at the start of the pass)
\* from every cell of the grid that its bounding box touches, whatever its
\* radius.
C21_InsertedInEveryTouchedCell ==
    [][lastCall'.op = "detectCollisions" =>
          \A j \in 1 .. Len(GroupB) : \A k \in DOMAIN spatialGrid'.grid :
              ents[GroupB[j]].active /\ Touches(ents[GroupB[j]], k)
                  => Holds(spatialGrid', k, GroupB[j])]_vars

\* C21 witness: an entity of radius above the cell size spans three columns
\* and is referenced from all six cells of the grid
C21_Witness ==
    /\ lastCall.op = "detectCollisions"
    /\ ents[3].radius > Px(CellSize)
    /\ \A k \in DOMAIN spatialGrid.grid : Holds(spatialGrid, k, 3)
    /\ Cardinality(DOMAIN spatialGrid.grid) = 6

\* C22: the callback invocations of one detectCollisions pass are for
\* pairwise different pairs (entityA, entityB).
C22_PairReportedOnce ==
    lastCall.op = "detectCollisions" =>
        \A i, j \in 1 .. Len(calls) :
            calls[i].entityA = calls[j].entityA /\ calls[i].entityB = calls[j].entityB
                => i = j

\* C22 witness: entity 1 collided with entity 3, which the cells of entity
\* 1's query hold more than once
C22_Witness ==
    /\ lastCall.op = "detectCollisions"
    /\ <<1, 3>> \in Reported
    /\ ents[1].active
    /\ Cardinality({i \in 1 .. Len(queryAllCells(spatialGrid, calculateBounds(ents[1]))) :
                       queryAllCells(spatialGrid, calculateBounds(ents[1]))[i] = 3}) >= 2

InGroup(group, id) == \E j \in 1 .. Len(group) : group[j] = id

IndexIn(group, id) == CHOOSE j \in 1 .. Len(group) : group[j] = id

\* the two nested loops of query visit column after column, and the rows of
\* one column from the top
CellBefore(k1, k2) == k1[1] < k2[1] \/ (k1[1] = k2[1] /\ k1[2] < k2[2])

\* the first cell of entity a's query in which entity b is found
FirstCell(a, b) ==
    LET found == {k \in DOMAIN spatialGrid.grid :
                     Touches(ents[a], k) /\ Holds(spatialGrid, k, b)}
    IN  CHOOSE k \in found : \A k2 \in found : k2 = k \/ CellBefore(k, k2)

\* C24 as stated: the callbacks of one pass come in groupA order, and for one
\* groupA entity in the order in which the entities were inserted from
\* groupB, in whatever cells the candidates lie.
C24_InsertionOrder ==
    lastCall.op = "detectCollisions" =>
        \A i, j \in 1 .. Len(calls) :
            i < j =>
                \/ IndexIn(lastCall.groupA, calls[i].entityA)
                       < IndexIn(lastCall.groupA, calls[j].entityA)
                \/ /\ calls[i].entityA = calls[j].entityA
                   /\ IndexIn(lastCall.groupB, calls[i].entityB)
                          < IndexIn(lastCall.groupB, calls[j].entityB)

\* C24 amended: the callbacks of one pass come in groupA order, and for one
\* groupA entity in the order in which its query first finds the entities:
\* by the first cell that holds the entity, columns left to right and rows
\* top to bottom within a column, and by groupB insertion order for entities
\* first found in the same cell.
C24_CellThenInsertionOrder ==
    lastCall.op = "detectCollisions" =>
        \A i, j \in 1 .. Len(calls) :
            i < j =>
                \/ IndexIn(lastCall.groupA, calls[i].entityA)
                       < IndexIn(lastCall.groupA, calls[j].entityA)
                \/ /\ calls[i].entityA = calls[j].entityA
                   /\ LET a == calls[i].entityA
                          ki == FirstCell(a, calls[i].entityB)
                          kj == FirstCell(a, calls[j].entityB)
                      IN  \/ CellBefore(ki, kj)
                          \/ /\ ki = kj
                             /\ IndexIn(lastCall.groupB, calls[i].entityB)
                                    < IndexIn(lastCall.groupB, calls[j].entityB)

\* C24 witness: one groupA entity hit two entities, the later inserted one
\* first because it lies in an earlier cell
C24_Witness ==
    /\ lastCall.op = "detectCollisions"
    /\ \E i, j \in 1 .. Len(calls) :
          /\ i < j
          /\ calls[i].entityA = calls[j].entityA
          /\ IndexIn(lastCall.groupB, calls[i].entityB)
                 > IndexIn(lastCall.groupB, calls[j].entityB)
          /\ CellBefore(FirstCell(calls[i].entityA, calls[i].entityB),
                        FirstCell(calls[j].entityA, calls[j].entityB))

\* ------------------------------------------------ claims: force aggregation
RestOf(p) == Vec(gridPoints[p].targetX, gridPoints[p].targetY)
Reach(p, inf) == distance(RestOf(p), inf.position)
SameCell(p, q) ==
    /\ Floor(p[1] * GridSize, WarpCellSize) = Floor(q[1] * GridSize, WarpCellSize)
    /\ Floor(p[2] * GridSize, WarpCellSize) = Floor(q[2] * GridSize, WarpCellSize)

\* C25: the force an update() applies to a lattice point is that of the
\* direct loop over the influences at that point: a point that is at least
\* its radius away from every influence gets no force, and with a single
\* influence two points of one aggregation cell that are both within its
\* radius but at different distances from it do not get the same force.
C25_ForceAsDirectLoop ==
    lastOp.op = "update" =>
        \A p \in DOMAIN applied :
            /\ (\A i \in 1 .. Len(influences) : Reach(p, influences[i]) >= influences[i].radius)
                   => applied[p] = zero
            /\ Len(influences) = 1 =>
                   \A q \in DOMAIN applied :
                       /\ SameCell(p, q)
                       /\ Reach(p, influences[1]) < influences[1].radius
                       /\ Reach(q, influences[1]) < influences[1].radius
                       /\ Reach(p, influences[1]) # Reach(q, influences[1])
                       => applied[p] # applied[q]

\* ------------------------------------------------------------ claims: Game
\* the list as an update() leaves it when it is handed `list`
Listing(list, id) == {k \in 1 .. Len(list) : list[k].id = id}

\* C11 (as claimed): the influences the collisions of a frame registered have
\* been decayed by that frame's grid warp update, and its forces are those
\* of the list the frame ends with.
C11_CollisionsBeforeWarp ==
    lastOp.op = "frame" =>
        /\ \A r \in 1 .. Len(lastOp.registered) :
              \A k \in Listing(influences, lastOp.registered[r].id) :
                  influences[k].strength < lastOp.registered[r].strength
        /\ applied = ForcesOf(influences, warp, gridPoints)

\* C11 (amended): a frame's grid warp update runs before its collision
\* detection: the frame ends with the decayed and pruned list of what was
\* there before the collisions, followed by the collisions' influences
\* exactly as registered, and the forces it applied are those of the list
\* without them.
C11_WarpBeforeCollisions ==
    [][lastOp'.op = "frame" =>
          LET before == decayAndPrune(influences \o lastOp'.entered)
          IN  /\ influences' = before \o lastOp'.registered
              /\ applied' = ForcesOf(before, warp, gridPoints')]_vars

\* C11 witness: a frame whose collision registered an influence while the
\* update of the same frame applied a force
C11_Witness ==
    /\ lastOp.op = "frame"
    /\ lastOp.registered # <<>>
    /\ \E p \in DOMAIN applied : applied[p] # zero

\* C12: the timers of startAmbientPulses() are never cancelled; a timer that
\* fires appends exactly one ambient influence to the list and leaves a timer
\* pending; and once a timer is pending, ambient pulses are appended again
\* and again, for ever.
AmbientInfluence(i) ==
    /\ i.call = 0
    /\ i.strength >= Div(2 * Scale, 10) * 30 /\ i.strength <= Div(6 * Scale, 10) * 30
    /\ i.radius >= Px(80) /\ i.radius <= Px(120)
    /\ i.decay >= 95 /\ i.decay <= 98
C26_PausedUntilPressedAgain ==
    [][/\ game.gameState = "PLAYING" /\ game'.lastOp = "togglePause"
             => game'.gameState = "PAUSED"
       /\ game.gameState = "PAUSED" /\ game'.lastOp = "update"
             => /\ game'.gameState = "PAUSED"
                /\ game'.score = game.score
                /\ game'.lives = game.lives
                /\ game'.wave = game.wave
                /\ game'.enemies = game.enemies
                /\ game'.powerUps = game.powerUps
                /\ game'.enemyProjectiles = game.enemyProjectiles
       /\ game.gameState = "PAUSED" /\ game'.lastOp = "togglePause"
             => game'.gameState = "PLAYING"]_vars

\* C27: lives is never negative, a frame costs at most one life, and
\* gameOver() is entered at most once in a game.
C27_OneLifePerFrame ==
    /\ game.lives >= 0
    /\ game.livesLost <= 1
    /\ game.gameOvers <= 1

\* C28: the value of an enemy is added to the score at most once.
C28_ScoredOnce ==
    \A i, j \in 1 .. Len(game.scored) : game.scored[i] = game.scored[j] => i = j

\* C29: shieldHits is never negative, and one shield activation absorbs at
\* most 3 hits.
C29_ShieldAbsorbsThree ==
    /\ game.player.shieldHits >= 0
    /\ game.absorbed <= 3

\* C30: at most one chain of ambient-pulse timers is pending, from the
\* construction of the Game on and over every restart.
C30_OneAmbientChain == ambientTimers <= 1

====
